---- MODULE Spec2Model ----
(***************************************************************************)
(* PEG.js 0.5 (src/pegjs-0.5/lib/compiler.js): the semantic analyser of    *)
(* PEG.Compiler (the two checks and the proxy-rule pass run by             *)
(* compileParser) and the parser that _compileFunctions emits, executed    *)
(* on an input string.                                                     *)
(*                                                                         *)
(* JavaScript values are encoded as follows.  An AST node is a record      *)
(* with the fields the source gives it (type, name, expression, ...).  A   *)
(* rule's displayName is a string, "" standing for null (parse_rule maps   *)
(* "" to null, so the two never coexist).  The object ast.rules is the     *)
(* sequence of its own properties [key, value] in insertion order, which   *)
(* is the order for-in enumerates them in.  A semantic value of the        *)
(* emitted parser is Null (the FAIL sentinel null), Str(s) or List(l).     *)
(* The input is a sequence of one-character strings.                       *)
(***************************************************************************)
EXTENDS Integers, Sequences, FiniteSets, TLC

(* ----------------------------- bounds --------------------------------- *)

\* Largest number of rules of a grammar handed to compileParser.
MaxRules == 3

\* Longest input handed to parse.
MaxInput == 3

\* The rule names a grammar may declare, in declaration order.
RuleNames == <<"a", "b", "c", "d", "e", "f">>

VARIABLES
  ast,      \* compileParser: the grammar tree (mutated in place by the pass)
  ast0,     \* history: the grammar tree compileParser was called with
  cpc,      \* compileParser: the step to run next
  steps,    \* history: the steps compileParser has run, in order
  thrown,   \* compileParser: the exception that left it, or NoError
  source,   \* compileParser: the emitted source (var source)
  parser,   \* compileParser: the parser object returned, or NoParser
  emitted,  \* parse: the source text the running parser was evaluated from
  input,    \* parse: the input, a sequence of characters
  pos,      \* parse: var pos
  rightmostMatchFailuresPos,       \* parse: var rightmostMatchFailuresPos
  rightmostMatchFailuresExpected,  \* parse: var rightmostMatchFailuresExpected
  cache,    \* parse: var cache, the own properties cacheKey -> {nextPos, result}
  reportMatchFailures,  \* parse: context.reportMatchFailures (one shared object)
  stack,    \* parse: the fragments being executed, innermost last
  ret,      \* parse: the result variable the last finished fragment assigned
  ppc,      \* parse: "running", "returned" or "threw"
  outcome,  \* parse: the value returned or the exception thrown
  last,     \* history: the fragment that finished last, as it finished
  evaluated \* history: the rule bodies evaluated so far, with what they gave

compileVars == <<ast, ast0, cpc, steps, thrown, source, parser>>

parseVars ==
  <<emitted, input, pos, rightmostMatchFailuresPos, rightmostMatchFailuresExpected,
    cache, reportMatchFailures, stack, ret, ppc, outcome, last, evaluated>>

\* The state of the helper functions when they are looked at on their own.
VARIABLES
  calls,    \* history: the matchFailed calls made, as [pos, failure]
  uniqueIdentifierCounters, \* PEG.Compiler._uniqueIdentifierCounters
  generated,  \* history: the generateUniqueIdentifier calls since the last
              \* reset, as [prefix, identifier]
  compiled    \* history: the rule compiled last, whether counters were
              \* left when its compilation began and the identifiers
              \* generated for it

identifierVars == <<uniqueIdentifierCounters, generated, compiled>>

\* Several parse calls on one parser object.
VARIABLES
  suspended,  \* the variables of the parse calls that are waiting for a parse
              \* call made by the code of an action to return, outermost first
  finished,   \* history: the parse calls that have ended, as [input, outcome]
  parses      \* history: the number of parse calls made after the first

callVars == <<suspended, finished, parses>>

\* The left-recursion check, call by call.
VARIABLES
  checking    \* the calls of check(node, appliedRules) that have not returned,
              \* outermost first, as [node, appliedRules, k]: k counts the
              \* calls the call has made itself

utilVars == <<calls, identifierVars, callVars, checking>>

vars == <<compileVars, parseVars, utilVars>>

\* No helper function is looked at on its own.
NoRule == [type |-> "none"]

UtilIdle ==
  /\ calls = <<>>
  /\ uniqueIdentifierCounters = <<>>
  /\ generated = <<>>
  /\ compiled = NoRule
  /\ suspended = <<>>
  /\ finished = {}
  /\ parses = 0
  /\ checking = <<>>

(* ------------------------- JavaScript objects ------------------------- *)

\* typeof(x) === "undefined"
Undefined == [type |-> "undefined"]

\* A built-in function object such as Object.prototype.toString.
NativeFunction == [type |-> "function"]

\* The properties an object literal {} inherits from Object.prototype, among
\* the names a rule_ref can carry (rulesConverted = {} in parse_grammar).
ObjectPrototype(name) ==
  IF name = "toString" THEN NativeFunction ELSE Undefined

\* The own property names of an object, in for-in order.
Keys(obj) == [i \in 1..Len(obj) |-> obj[i].key]

HasOwnProperty(obj, name) == \E i \in 1..Len(obj) : obj[i].key = name

\* obj[name]: the own property if there is one, else what the prototype has.
Get(obj, name) ==
  IF HasOwnProperty(obj, name)
  THEN obj[CHOOSE i \in 1..Len(obj) : obj[i].key = name].value
  ELSE ObjectPrototype(name)

\* obj[name] = value
Put(obj, name, value) ==
  IF HasOwnProperty(obj, name)
  THEN [i \in 1..Len(obj) |->
          IF obj[i].key = name THEN [key |-> name, value |-> value] ELSE obj[i]]
  ELSE Append(obj, [key |-> name, value |-> value])

\* Numbers, and the number a function object converts to.
Num(n) == [type |-> "number", v |-> n]
NaN == [type |-> "NaN"]

\* !x for the values of counters.
Falsy(x) == x = Undefined \/ x = NaN \/ x = Num(0)

\* delete obj[name]
Delete(obj, name) == SelectSeq(obj, LAMBDA e : e.key # name)

(* ----------------------------- AST nodes ------------------------------ *)

Literal(value) == [type |-> "literal", value |-> value]
RuleRef(name) == [type |-> "rule_ref", name |-> name]
Sequence(elements) == [type |-> "sequence", elements |-> elements]
Choice(alternatives) == [type |-> "choice", alternatives |-> alternatives]
Labeled(label, expression) ==
  [type |-> "labeled", label |-> label, expression |-> expression]
SimpleAnd(expression) == [type |-> "simple_and", expression |-> expression]
SimpleNot(expression) == [type |-> "simple_not", expression |-> expression]
SemanticAnd(code) == [type |-> "semantic_and", code |-> code]
SemanticNot(code) == [type |-> "semantic_not", code |-> code]
Optional(expression) == [type |-> "optional", expression |-> expression]
ZeroOrMore(expression) == [type |-> "zero_or_more", expression |-> expression]
OneOrMore(expression) == [type |-> "one_or_more", expression |-> expression]
Action(expression, code) ==
  [type |-> "action", expression |-> expression, code |-> code]
AnyChar == [type |-> "any"]
\* A class node.  A part is <<c>> for the character c and <<low, high>> for
\* the range (the array [low, high]).
Class(parts, inverted, rawText) ==
  [type |-> "class", inverted |-> inverted, parts |-> parts, rawText |-> rawText]
Rule(name, displayName, expression) ==
  [type |-> "rule", name |-> name, displayName |-> displayName,
   expression |-> expression]

\* The grammar node parse_grammar builds from the rules in declaration order:
\* rulesConverted[rule.name] = rule, startRule = rules[0].name.
Grammar(rules) ==
  [type |-> "grammar",
   rules |-> [i \in 1..Len(rules) |-> [key |-> rules[i].name, value |-> rules[i]]],
   startRule |-> rules[1].name]

ExpressionTypes ==
  {"rule", "labeled", "simple_and", "simple_not", "optional", "zero_or_more",
   "one_or_more", "action"}

LeafTypes == {"semantic_and", "semantic_not", "literal", "any", "class"}

(* ---------------------------- exceptions ------------------------------ *)

NoError == [name |-> "", message |-> ""]

GrammarError(message) == [name |-> "PEG.GrammarError", message |-> message]

\* What the engine throws on calling undefined or reading a property of it.
TypeError == [name |-> "TypeError", message |-> ""]

\* The exception a left-to-right loop over the calls leaves with: the first one.
RECURSIVE FirstError(_)
FirstError(errors) ==
  IF errors = <<>> THEN NoError
  ELSE IF Head(errors) # NoError THEN Head(errors)
  ELSE FirstError(Tail(errors))

(* ------------------ PEG.Compiler._checks[0]: references --------------- *)

\* check(node) of _checks[0]: the exception it leaves with, or NoError.
RECURSIVE checkReferences(_, _)
checkReferences(tree, node) ==
  CASE node.type = "grammar" ->
         FirstError([i \in 1..Len(node.rules) |->
                       checkReferences(tree, Get(node.rules, Keys(node.rules)[i]))])
    [] node.type \in ExpressionTypes -> checkReferences(tree, node.expression)
    [] node.type = "choice" ->
         FirstError([i \in 1..Len(node.alternatives) |->
                       checkReferences(tree, node.alternatives[i])])
    [] node.type = "sequence" ->
         FirstError([i \in 1..Len(node.elements) |->
                       checkReferences(tree, node.elements[i])])
    [] node.type = "rule_ref" ->
         IF Get(tree.rules, node.name) = Undefined
         THEN GrammarError("Referenced rule \"" \o node.name \o "\" does not exist.")
         ELSE NoError
    [] node.type \in LeafTypes -> NoError
    [] OTHER -> TypeError

(* --------------- PEG.Compiler._checks[1]: left recursion -------------- *)

\* contains, had it looked at the last element only.
containsLast(array, value) ==
  array # <<>> /\ array[Len(array)] = value

\* PEG.ArrayUtils.contains
contains(array, value) ==
  \E i \in 1..Len(array) : array[i] = value

\* check(node, appliedRules) of _checks[1].
RECURSIVE checkLeftRecursion(_, _, _)
checkLeftRecursion(tree, node, appliedRules) ==
  CASE node.type = "grammar" ->
         FirstError([i \in 1..Len(node.rules) |->
                       checkLeftRecursion(tree, Get(tree.rules, Keys(node.rules)[i]),
                                          appliedRules)])
    [] node.type = "rule" ->
         checkLeftRecursion(tree, node.expression, Append(appliedRules, node.name))
    [] node.type = "choice" ->
         FirstError([i \in 1..Len(node.alternatives) |->
                       checkLeftRecursion(tree, node.alternatives[i], appliedRules)])
    [] node.type = "sequence" ->
         IF Len(node.elements) > 0
         THEN checkLeftRecursion(tree, node.elements[1], appliedRules)
         ELSE NoError
    [] node.type \in ExpressionTypes \ {"rule"} ->
         checkLeftRecursion(tree, node.expression, appliedRules)
    [] node.type = "rule_ref" ->
         IF contains(appliedRules, node.name)
         THEN GrammarError("Left recursion detected for rule \"" \o node.name \o "\".")
         ELSE checkLeftRecursion(tree, Get(tree.rules, node.name), appliedRules)
    [] node.type \in LeafTypes -> NoError
    [] OTHER -> TypeError

(* --------------- PEG.Compiler._passes[0]: proxy rules ----------------- *)

isProxyRule(node) == node.type = "rule" /\ node.expression.type = "rule_ref"

\* replace(node, from, to): the node after the in-place renaming.
RECURSIVE replace(_, _, _)
replace(node, from, to) ==
  CASE node.type \in ExpressionTypes ->
         [node EXCEPT !.expression = replace(@, from, to)]
    [] node.type = "choice" ->
         [node EXCEPT !.alternatives =
            [i \in 1..Len(@) |-> replace(@[i], from, to)]]
    [] node.type = "sequence" ->
         [node EXCEPT !.elements =
            [i \in 1..Len(@) |-> replace(@[i], from, to)]]
    [] node.type = "rule_ref" ->
         IF node.name = from THEN [node EXCEPT !.name = to] ELSE node
    [] OTHER -> node

\* replaceRuleRefs(ast, from, to): the grammar case visits every rule.
replaceRuleRefs(tree, from, to) ==
  [tree EXCEPT !.rules =
     [i \in 1..Len(@) |-> [key |-> @[i].key, value |-> replace(@[i].value, from, to)]]]

\* eliminateProxy without lines 458-460: the start rule is not redirected.
eliminateProxyKeepingStart(tree, name) ==
  IF HasOwnProperty(tree.rules, name) /\ isProxyRule(Get(tree.rules, name))
  THEN LET replaced == replaceRuleRefs(tree, Get(tree.rules, name).name,
                                       Get(tree.rules, name).expression.name)
       IN [replaced EXCEPT !.rules = Delete(@, name)]
  ELSE tree

\* One iteration of "for (var name in ast.rules)" in the pass.
eliminateProxy(tree, name) ==
  IF HasOwnProperty(tree.rules, name) /\ isProxyRule(Get(tree.rules, name))
  THEN LET replaced == replaceRuleRefs(tree, Get(tree.rules, name).name,
                                       Get(tree.rules, name).expression.name)
           restarted ==
             IF name = replaced.startRule
             THEN [replaced EXCEPT
                     !.startRule = Get(replaced.rules, name).expression.name]
             ELSE replaced
       IN [restarted EXCEPT !.rules = Delete(@, name)]
  ELSE tree

\* A loop that loses the key following a deleted one, as a loop over an
\* array being spliced would.
RECURSIVE eliminateFromSkipping(_, _)
eliminateFromSkipping(tree, names) ==
  IF names = <<>> THEN tree
  ELSE IF isProxyRule(Get(tree.rules, Head(names))) /\ Len(names) > 1
  THEN eliminateFromSkipping(eliminateProxy(tree, Head(names)), Tail(Tail(names)))
  ELSE eliminateFromSkipping(eliminateProxy(tree, Head(names)), Tail(names))

\* The for-in loop over the keys ast.rules has when the loop starts; a key
\* deleted before its turn is skipped.
RECURSIVE eliminateFrom(_, _)
eliminateFrom(tree, names) ==
  IF names = <<>> THEN tree
  ELSE eliminateFrom(eliminateProxy(tree, Head(names)), Tail(names))

removeProxyRules(tree) == eliminateFrom(tree, Keys(tree.rules))

(* ------------------- PEG.Compiler._compileFunctions ------------------- *)

\* The source compileNode emits for a grammar node, kept as its structure:
\* one function parse_<rule.name> per enumerated rule, and the function the
\* parse method calls first, parse_<startRule>.
compileNode(node) ==
  [startRule |-> "parse_" \o node.startRule,
   parseFunctionDefinitions |->
     [i \in 1..Len(node.rules) |->
        [name |-> "parse_" \o node.rules[i].value.name,
         rule |-> node.rules[i].value]]]

NoSource == [startRule |-> "", parseFunctionDefinitions |-> <<>>]

NoParser == [_source |-> NoSource]

(* --------------------- PEG.Compiler.compileParser --------------------- *)

\* The names a rule_ref of an input grammar may carry: every declarable rule
\* name and one name that only Object.prototype defines.
RefNames == {RuleNames[i] : i \in 1..MaxRules} \cup {"toString"}

\* The rule bodies of the input grammars: a terminal, a proxy, a reference
\* behind a consumed literal, and a reference at the left edge of a sequence
\* inside a choice.
Bodies ==
  {Literal("x")}
  \cup {RuleRef(n) : n \in RefNames}
  \cup {Sequence(<<Literal("x"), SimpleNot(RuleRef(n))>>) : n \in RefNames}
  \cup {Choice(<<Literal("x"), Sequence(<<Optional(RuleRef(n)), Literal("y")>>)>>) :
          n \in RefNames}

\* A grammar PEG.grammarParser.parse returns for rules with these bodies.
GrammarOf(body) ==
  Grammar([i \in 1..Len(body) |-> Rule(RuleNames[i], "", body[i])])

\* this._checks[0](ast)
RunCheck0 ==
  /\ cpc = "check0"
  /\ steps' = Append(steps, "check0")
  /\ thrown' = checkReferences(ast, ast)
  /\ cpc' = IF thrown' = NoError THEN "check1" ELSE "threw"
  /\ UNCHANGED <<ast, ast0, source, parser>>

\* this._checks[1](ast)
RunCheck1 ==
  /\ cpc = "check1"
  /\ steps' = Append(steps, "check1")
  /\ thrown' = checkLeftRecursion(ast, ast, <<>>)
  /\ cpc' = IF thrown' = NoError THEN "pass0" ELSE "threw"
  /\ UNCHANGED <<ast, ast0, source, parser>>

\* ast = this._passes[0](ast)
RunPass0 ==
  /\ cpc = "pass0"
  /\ steps' = Append(steps, "pass0")
  /\ ast' = removeProxyRules(ast)
  /\ cpc' = "compile"
  /\ UNCHANGED <<ast0, thrown, source, parser>>

\* var source = this.compileNode(ast)
RunCompileNode ==
  /\ cpc = "compile"
  /\ steps' = Append(steps, "compile")
  /\ source' = compileNode(ast)
  /\ cpc' = "eval"
  /\ UNCHANGED <<ast, ast0, thrown, parser>>

\* var result = eval(source); result._source = source; return result
RunEval ==
  /\ cpc = "eval"
  /\ steps' = Append(steps, "eval")
  /\ parser' = [_source |-> source]
  /\ cpc' = "returned"
  /\ UNCHANGED <<ast, ast0, thrown, source>>

CompileNext == RunCheck0 \/ RunCheck1 \/ RunPass0 \/ RunCompileNode \/ RunEval

(* ======================== the emitted parser ========================== *)

(* ------------------------- semantic values ---------------------------- *)

\* null, the value of a fragment that did not match.
Null == [t |-> "null"]

\* A string value.
Str(s) == [t |-> "str", v |-> s]

\* An array value.
List(l) == [t |-> "list", v |-> l]

\* The characters of a slice of the input, as one string.
RECURSIVE Join(_)
Join(chars) == IF chars = <<>> THEN "" ELSE Head(chars) \o Join(Tail(chars))

\* input.substr(start, length) that goes on at the beginning of the string
\* when it reaches its end.
substrRepeating(string, start, length) ==
  IF string = <<>> THEN ""
  ELSE Join([i \in 1..length |-> string[((start + i - 1) % Len(string)) + 1]])

\* input.substr(start, length)
substr(string, start, length) ==
  Join(SubSeq(string, start + 1,
              IF start + length > Len(string) THEN Len(string) ELSE start + length))

\* The characters U+2028 (line separator) and U+2029 (paragraph separator),
\* which a string of this module cannot hold: each stands for one character.
LS == "<U+2028>"

PS == "<U+2029>"

\* The replacements of quoteString, for a string s that is one character
\* or holds none of the characters replaced.
escaped(s) ==
  CASE s = "\\" -> "\\\\"
    [] s = "\"" -> "\\\""
    [] s = "\r" -> "\\r"
    [] s = LS -> "\\u2028"
    [] s = PS -> "\\u2029"
    [] s = "\n" -> "\\n"
    [] OTHER -> s

\* quoteString(s)
quoteString(s) == "\"" \o escaped(s) \o "\""

\* The characters the classes of a grammar are built from and matched with.
ClassAlphabet == {"-", "\\", "]", "^", "_", "a", "b"}

\* c.charCodeAt(0)
charCode(c) ==
  CASE c = "\n" -> 10
    [] c = "\r" -> 13
    [] c = "-" -> 45
    [] c = "/" -> 47
    [] c = "S" -> 83
    [] c = "\\" -> 92
    [] c = "]" -> 93
    [] c = "^" -> 94
    [] c = "_" -> 95
    [] c = "a" -> 97
    [] c = "b" -> 98
    [] c = "n" -> 110
    [] c = "r" -> 114
    [] c = "s" -> 115
    [] c = LS -> 8232
    [] c = PS -> 8233

\* PEG.RegExpUtils.quoteForClass(s) for a string s of one character, as the
\* sequence of the characters of the result.
quoteForClass(s) ==
  CASE s = "\\" -> <<"\\", "\\">>
    [] s = "/" -> <<"\\", "/">>
    [] s = "]" -> <<"\\", "]">>
    [] s = "-" -> <<"\\", "-">>
    [] s = "\r" -> <<"\\", "r">>
    [] s = LS -> <<"\\", "u", "2", "0", "2", "8">>
    [] s = PS -> <<"\\", "u", "2", "0", "2", "9">>
    [] s = "\n" -> <<"\\", "n">>
    [] OTHER -> <<s>>

\* arrayContains(array, value)
arrayContains(array, value) == \E i \in 1..Len(array) : array[i] = value

\* matchFailed without the return for a position before the rightmost one.
matchFailedAnywhere(failure, p, failuresPos, failuresExpected) ==
  LET expected == IF p > failuresPos THEN <<>> ELSE failuresExpected
  IN [pos |-> IF p > failuresPos THEN p ELSE failuresPos,
      expected |-> IF arrayContains(expected, failure)
                   THEN expected
                   ELSE Append(expected, failure)]

\* matchFailed(failure) called at position p: the new rightmostMatchFailuresPos
\* and rightmostMatchFailuresExpected.
matchFailed(failure, p, failuresPos, failuresExpected) ==
  IF p < failuresPos
  THEN [pos |-> failuresPos, expected |-> failuresExpected]
  ELSE LET expected == IF p > failuresPos THEN <<>> ELSE failuresExpected
       IN [pos |-> p,
           expected |-> IF arrayContains(expected, failure)
                        THEN expected
                        ELSE Append(expected, failure)]

\* The failure record unchanged: no matchFailed call.
noFailure == [pos |-> rightmostMatchFailuresPos,
              expected |-> rightmostMatchFailuresExpected]

\* A fragment's "if (context.reportMatchFailures) { matchFailed(failure); }"
reportFailure(report, failure) ==
  IF report
  THEN matchFailed(failure, pos, rightmostMatchFailuresPos,
                   rightmostMatchFailuresExpected)
  ELSE noFailure

\* A cache key that leaves the position out.
cacheKeyWithoutPos(name, p) == name

\* var cacheKey = <name> + '@' + pos
cacheKeyOf(name, p) == name \o "@" \o ToString(p)

\* cache[cacheKey] is set (a cached entry is an object, so it is truthy).
Cached(key) == key \in DOMAIN cache

\* cache[cacheKey] = entry
CachePut(c, key, entry) ==
  [k \in DOMAIN c \cup {key} |-> IF k = key THEN entry ELSE c[k]]

(* ----------------------- the error a parse throws --------------------- *)

\* The strings matchFailed can be given, in the order Array.prototype.sort
\* puts them (by UTF-16 code unit): '"' sorts before every letter.
SortOrder == <<"\"a\"", "\"b\"", "[a]", "any character", "letters">>

Rank(string) == CHOOSE i \in 1..Len(SortOrder) : SortOrder[i] = string

\* The array left in the order it has.
unsorted(array) == array

\* failuresExpected.sort()
sort(array) ==
  LET present == {i \in 1..Len(SortOrder) : arrayContains(array, SortOrder[i])}
      nth(k) == CHOOSE i \in present : Cardinality({j \in present : j < i}) = k - 1
  IN [k \in 1..Cardinality(present) |-> SortOrder[nth(k)]]

\* array.join(', ')
RECURSIVE join(_)
join(array) ==
  IF array = <<>> THEN ""
  ELSE IF Len(array) = 1 THEN array[1]
  ELSE array[1] \o ", " \o join(Tail(array))

buildExpected(failuresExpected) ==
  CASE Len(failuresExpected) = 0 -> "end of input"
    [] Len(failuresExpected) = 1 -> failuresExpected[1]
    [] OTHER ->
         LET sorted == sort(failuresExpected)
         IN join(SubSeq(sorted, 1, Len(sorted) - 1)) \o " or " \o sorted[Len(sorted)]

buildErrorMessage ==
  LET expected == buildExpected(rightmostMatchFailuresExpected)
      actualPos == IF pos > rightmostMatchFailuresPos
                   THEN pos ELSE rightmostMatchFailuresPos
      actual == IF actualPos < Len(input)
                THEN quoteString(input[actualPos + 1])
                ELSE "end of input"
  IN "Expected " \o expected \o " but " \o actual \o " found."

\* The loop of computeErrorPosition from character i (0-based) on.
RECURSIVE errorPositionFrom(_, _, _, _)
errorPositionFrom(i, line, column, seenCR) ==
  IF ~(i < rightmostMatchFailuresPos) THEN [line |-> line, column |-> column]
  ELSE LET ch == IF i < Len(input) THEN input[i + 1] ELSE ""
       IN IF ch = "\n"
          THEN errorPositionFrom(i + 1, IF seenCR THEN line ELSE line + 1, 1, FALSE)
          ELSE IF ch = "\r" \/ ch = LS \/ ch = PS
          THEN errorPositionFrom(i + 1, line + 1, 1, TRUE)
          ELSE errorPositionFrom(i + 1, line, column + 1, FALSE)

computeErrorPosition == errorPositionFrom(0, 1, 1, FALSE)

\* new this.SyntaxError(message, line, column)
SyntaxError(message, line, column) ==
  [name |-> "SyntaxError", message |-> message, line |-> line, column |-> column]

\* What parse has returned or thrown while it is still running.
NoOutcome == [name |-> "none"]

\* return result
Returned(value) == [name |-> "value", value |-> value]

(* ------------------- the fragments being executed --------------------- *)

\* A fragment about to run at position p.  k counts the sub-fragments it has
\* started; savedPos, savedReportMatchFailures and cacheKey are the emitted
\* variables of those names; results holds the result variables of the
\* sub-fragments run so far.  entry, starts and stops are history: the
\* position the fragment was entered at and the positions each sub-fragment
\* was started and left at; report is history too, the value of
\* context.reportMatchFailures the fragment was entered with.
Frame(node, p) ==
  [node |-> node, k |-> 0, savedPos |-> 0, savedReportMatchFailures |-> FALSE,
   cacheKey |-> "", results |-> <<>>, entry |-> p, starts |-> <<>>, stops |-> <<>>,
   report |-> reportMatchFailures]

Top == stack[Len(stack)]

Rest == SubSeq(stack, 1, Len(stack) - 1)

\* The innermost fragment is of the given type and has started k sub-fragments.
Fragment(type) == ppc = "running" /\ stack # <<>> /\ Top.node.type = type

\* The frame with the result its last sub-fragment left in its result variable.
Resumed(f) == [f EXCEPT !.results = Append(@, ret), !.stops = Append(@, pos)]

\* The fragment finishes: its result variable holds value, pos is p.
Finish(f, value, p, cached) ==
  /\ stack' = Rest
  /\ ret' = value
  /\ pos' = p
  /\ last' = [node |-> f.node, entry |-> f.entry, starts |-> f.starts,
              stops |-> f.stops, results |-> f.results, result |-> value,
              exit |-> p, cached |-> cached]

\* The fragment runs the code of a sub-expression next.
Run(f, expression) ==
  /\ stack' = Append(Append(Rest, [f EXCEPT !.k = @ + 1, !.starts = Append(@, pos)]),
                     Frame(expression, pos))
  /\ UNCHANGED <<ret, pos, last>>

Failures(failure) ==
  /\ rightmostMatchFailuresPos' = failure.pos
  /\ rightmostMatchFailuresExpected' = failure.expected

NoFragment ==
  [node |-> [type |-> "none"], entry |-> 0, starts |-> <<>>, stops |-> <<>>,
   results |-> <<>>, result |-> Null, exit |-> 0, cached |-> FALSE]

Fixed == UNCHANGED <<compileVars, utilVars, emitted, input, ppc, outcome>>

\* The rule node of the emitted function of a name, or Undefined.
FunctionNamed(name) ==
  IF \E i \in 1..Len(emitted.parseFunctionDefinitions) :
       emitted.parseFunctionDefinitions[i].name = name
  THEN emitted.parseFunctionDefinitions[
         CHOOSE i \in 1..Len(emitted.parseFunctionDefinitions) :
           emitted.parseFunctionDefinitions[i].name = name].rule
  ELSE Undefined

\* What the engine throws on a call of a function that is not defined.
ReferenceError == [name |-> "ReferenceError"]

(* ------------------- _compileFunctions: the fragments ----------------- *)

\* literal
MatchLiteral ==
  /\ Fragment("literal")
  /\ LET value == Top.node.value
         matched == substr(input, pos, Len(value)) = value
     IN /\ Finish(Top, IF matched THEN Str(value) ELSE Null,
                  IF matched THEN pos + Len(value) ELSE pos, FALSE)
        /\ Failures(IF matched THEN noFailure
                    ELSE reportFailure(reportMatchFailures, quoteString(value)))
  /\ UNCHANGED <<cache, reportMatchFailures, evaluated>>
  /\ Fixed

\* any
MatchAny ==
  /\ Fragment("any")
  /\ LET matched == Len(input) > pos
     IN /\ Finish(Top, IF matched THEN Str(input[pos + 1]) ELSE Null,
                  IF matched THEN pos + 1 ELSE pos, FALSE)
        /\ Failures(IF matched THEN noFailure
                    ELSE reportFailure(reportMatchFailures, "any character"))
  /\ UNCHANGED <<cache, reportMatchFailures, evaluated>>
  /\ Fixed

\* rule_ref: var result = parse_<name>(context)
CallRule ==
  /\ Fragment("rule_ref")
  /\ LET rule == FunctionNamed("parse_" \o Top.node.name)
     IN IF rule = Undefined
        THEN /\ ppc' = "threw"
             /\ outcome' = ReferenceError
             /\ UNCHANGED <<stack, ret, pos, last>>
        ELSE /\ stack' = Append(Rest, [Frame(rule, pos) EXCEPT
                                         !.entry = Top.entry])
             /\ UNCHANGED <<ret, pos, last, ppc, outcome>>
  /\ UNCHANGED <<cache, reportMatchFailures, evaluated, rightmostMatchFailuresPos,
                 rightmostMatchFailuresExpected, compileVars, utilVars, emitted,
                 input>>

\* rule: the cached result is returned.
RuleCached ==
  /\ Fragment("rule") /\ Top.k = 0
  /\ Cached(cacheKeyOf(Top.node.name, pos))
  /\ LET cachedResult == cache[cacheKeyOf(Top.node.name, pos)]
     IN Finish(Top, cachedResult.result, cachedResult.nextPos, TRUE)
  /\ UNCHANGED <<cache, reportMatchFailures, evaluated, rightmostMatchFailuresPos,
                 rightmostMatchFailuresExpected>>
  /\ Fixed

\* rule: nothing cached, the body runs (with reporting off under a display name).
RuleEnter ==
  /\ Fragment("rule") /\ Top.k = 0
  /\ ~Cached(cacheKeyOf(Top.node.name, pos))
  /\ Run([Top EXCEPT !.cacheKey = cacheKeyOf(Top.node.name, pos),
                     !.savedReportMatchFailures = reportMatchFailures],
         Top.node.expression)
  /\ reportMatchFailures' =
       IF Top.node.displayName # "" THEN FALSE ELSE reportMatchFailures
  /\ UNCHANGED <<cache, evaluated, rightmostMatchFailuresPos,
                 rightmostMatchFailuresExpected>>
  /\ Fixed

\* rule: the body has run; the failure is reported and the result cached.
RuleReturn ==
  /\ Fragment("rule") /\ Top.k = 1
  /\ LET named == Top.node.displayName # ""
         report == IF named THEN Top.savedReportMatchFailures
                   ELSE reportMatchFailures
     IN /\ reportMatchFailures' = report
        /\ Failures(IF named /\ report /\ ret = Null
                    THEN matchFailed(Top.node.displayName, pos,
                                     rightmostMatchFailuresPos,
                                     rightmostMatchFailuresExpected)
                    ELSE noFailure)
  /\ cache' = CachePut(cache, Top.cacheKey, [nextPos |-> pos, result |-> ret])
  /\ evaluated' = evaluated \cup
       {[rule |-> Top.node.name, pos |-> Top.entry, nextPos |-> pos, result |-> ret]}
  /\ Finish(Resumed(Top), ret, pos, FALSE)
  /\ Fixed

Silent ==
  UNCHANGED <<cache, reportMatchFailures, evaluated, rightmostMatchFailuresPos,
              rightmostMatchFailuresExpected>>

\* choice: the first alternative runs (no alternative: the result is null).
ChoiceStart ==
  /\ Fragment("choice") /\ Top.k = 0
  /\ IF Len(Top.node.alternatives) = 0
     THEN Finish(Top, Null, pos, FALSE)
     ELSE Run(Top, Top.node.alternatives[1])
  /\ Silent /\ Fixed

\* choice: an alternative has run; its result stands if it is not null,
\* otherwise the next alternative runs, and after the last the result is null.
ChoiceReturn ==
  /\ Fragment("choice") /\ Top.k >= 1
  /\ IF ret # Null
     THEN Finish(Resumed(Top), ret, pos, FALSE)
     ELSE IF Top.k < Len(Top.node.alternatives)
     THEN Run(Resumed(Top), Top.node.alternatives[Top.k + 1])
     ELSE Finish(Resumed(Top), Null, pos, FALSE)
  /\ Silent /\ Fixed

\* sequence: var savedPos = pos, then the first element runs.
SequenceStart ==
  /\ Fragment("sequence") /\ Top.k = 0
  /\ IF Len(Top.node.elements) = 0
     THEN Finish([Top EXCEPT !.savedPos = pos], List(<<>>), pos, FALSE)
     ELSE Run([Top EXCEPT !.savedPos = pos], Top.node.elements[1])
  /\ Silent /\ Fixed

\* sequence, an element's result is null: a sequence that leaves pos where
\* the element left it.
sequenceFailureKeepingPos(f) == [result |-> Null, pos |-> pos]

\* sequence, an element's result is null: var result = null; pos = savedPos;
sequenceFailure(f) == [result |-> Null, pos |-> f.savedPos]

\* sequence: an element has run; on null the result is null and pos is
\* restored, otherwise the next element runs, and after the last the result
\* is the array of the element results.
SequenceReturn ==
  /\ Fragment("sequence") /\ Top.k >= 1
  /\ IF ret = Null
     THEN Finish(Resumed(Top), sequenceFailure(Top).result,
                 sequenceFailure(Top).pos, FALSE)
     ELSE IF Top.k < Len(Top.node.elements)
     THEN Run(Resumed(Top), Top.node.elements[Top.k + 1])
     ELSE Finish(Resumed(Top), List(Resumed(Top).results), pos, FALSE)
  /\ Silent /\ Fixed

\* labeled: the code of the expression, with the same result variable.
RunLabeled ==
  /\ Fragment("labeled")
  /\ stack' = Append(Rest, Frame(Top.node.expression, pos))
  /\ UNCHANGED <<ret, pos, last>>
  /\ Silent /\ Fixed

\* simple_and, simple_not: pos and the reporting flag are saved, reporting is
\* switched off and the expression runs.
LookaheadStart ==
  /\ (Fragment("simple_and") \/ Fragment("simple_not")) /\ Top.k = 0
  /\ Run([Top EXCEPT !.savedPos = pos,
                     !.savedReportMatchFailures = reportMatchFailures],
         Top.node.expression)
  /\ reportMatchFailures' = FALSE
  /\ UNCHANGED <<cache, evaluated, rightmostMatchFailuresPos,
                 rightmostMatchFailuresExpected>>
  /\ Fixed

\* simple_and: '' and the saved pos if the expression matched, else null.
SimpleAndReturn ==
  /\ Fragment("simple_and") /\ Top.k = 1
  /\ reportMatchFailures' = Top.savedReportMatchFailures
  /\ IF ret # Null
     THEN Finish(Resumed(Top), Str(""), Top.savedPos, FALSE)
     ELSE Finish(Resumed(Top), Null, pos, FALSE)
  /\ UNCHANGED <<cache, evaluated, rightmostMatchFailuresPos,
                 rightmostMatchFailuresExpected>>
  /\ Fixed

\* simple_not: '' if the expression did not match, else null and the saved pos.
SimpleNotReturn ==
  /\ Fragment("simple_not") /\ Top.k = 1
  /\ reportMatchFailures' = Top.savedReportMatchFailures
  /\ IF ret = Null
     THEN Finish(Resumed(Top), Str(""), pos, FALSE)
     ELSE Finish(Resumed(Top), Null, Top.savedPos, FALSE)
  /\ UNCHANGED <<cache, evaluated, rightmostMatchFailuresPos,
                 rightmostMatchFailuresExpected>>
  /\ Fixed

\* The value (function() {<code>})() of a predicate's code is truthy.
Truthy(code) == code = "return true"

\* semantic_and, semantic_not
RunPredicate ==
  /\ Fragment("semantic_and") \/ Fragment("semantic_not")
  /\ Finish(Top,
            IF Truthy(Top.node.code) = (Top.node.type = "semantic_and")
            THEN Str("") ELSE Null,
            pos, FALSE)
  /\ Silent /\ Fixed

\* optional, action, zero_or_more, one_or_more: the expression runs first.
ExpressionStart ==
  /\ \/ Fragment("optional") \/ Fragment("action")
     \/ Fragment("zero_or_more") \/ Fragment("one_or_more")
  /\ Top.k = 0
  /\ Run(Top, Top.node.expression)
  /\ Silent /\ Fixed

\* optional: the result of the expression, or '' for null.
OptionalReturn ==
  /\ Fragment("optional") /\ Top.k = 1
  /\ Finish(Resumed(Top), IF ret # Null THEN ret ELSE Str(""), pos, FALSE)
  /\ Silent /\ Fixed

\* The results the loop has pushed: those that are not null.
Pushed(results) == SelectSeq(results, LAMBDA r : r # Null)

\* zero_or_more: while the result is not null it is pushed and the
\* expression runs again; then the result is the array.
ZeroOrMoreReturn ==
  /\ Fragment("zero_or_more") /\ Top.k >= 1
  /\ IF ret # Null
     THEN Run(Resumed(Top), Top.node.expression)
     ELSE Finish(Resumed(Top), List(Pushed(Top.results)), pos, FALSE)
  /\ Silent /\ Fixed

\* one_or_more: null if the first result is null, else as zero_or_more.
OneOrMoreReturn ==
  /\ Fragment("one_or_more") /\ Top.k >= 1
  /\ IF ret # Null
     THEN Run(Resumed(Top), Top.node.expression)
     ELSE Finish(Resumed(Top),
                 IF Top.k = 1 THEN Null ELSE List(Pushed(Top.results)),
                 pos, FALSE)
  /\ Silent /\ Fixed

\* The labels an action's function takes as parameters.
formalParams(node) ==
  IF node.expression.type = "sequence"
  THEN LET labeled == SelectSeq(node.expression.elements,
                                LAMBDA e : e.type = "labeled")
       IN [i \in 1..Len(labeled) |-> labeled[i].label]
  ELSE IF node.expression.type = "labeled" THEN <<node.expression.label>>
  ELSE <<>>

\* Values taken from the front of the result array, one per label.
actualParamsByPosition(node, result) ==
  IF node.expression.type = "sequence"
  THEN [j \in 1..Len(formalParams(node)) |-> result.v[j]]
  ELSE IF node.expression.type = "labeled" THEN <<result>>
  ELSE <<>>

\* The values it is called with, given the result of the expression.
actualParams(node, result) ==
  IF node.expression.type = "sequence"
  THEN LET indexes == SelectSeq([i \in 1..Len(node.expression.elements) |-> i],
                                LAMBDA i : node.expression.elements[i].type = "labeled")
       IN [j \in 1..Len(indexes) |-> result.v[indexes[j]]]
  ELSE IF node.expression.type = "labeled" THEN <<result>>
  ELSE <<>>

\* (function(<formalParams>) {<code>})(<actualParams>) for the codes
\* "return null", "return arguments" and "return <label>" (of parameters
\* of the same name the last one is the one the name stands for).
callAction(node, result) ==
  LET formal == formalParams(node)
      actual == actualParams(node, result)
  IN CASE node.code = "return null" -> Null
       [] node.code = "return arguments" -> List(actual)
       [] OTHER ->
            actual[CHOOSE i \in 1..Len(formal) :
                     /\ node.code = "return " \o formal[i]
                     /\ \A j \in (i + 1)..Len(formal) : formal[j] # formal[i]]

\* action: the value of the call if the expression matched, else null.
ActionReturn ==
  /\ Fragment("action") /\ Top.k = 1
  /\ Finish(Resumed(Top),
            IF ret # Null THEN callAction(Top.node, ret) ELSE Null, pos, FALSE)
  /\ Silent /\ Fixed

\* The end of parse: the error is thrown or the result returned.
ParseEnd ==
  /\ ppc = "running" /\ stack = <<>>
  /\ IF ret = Null \/ pos # Len(input)
     THEN /\ ppc' = "threw"
          /\ outcome' = SyntaxError(buildErrorMessage, computeErrorPosition.line,
                                    computeErrorPosition.column)
          \* buildExpected sorts the array in place
          /\ rightmostMatchFailuresExpected' =
               IF Len(rightmostMatchFailuresExpected) > 1
               THEN sort(rightmostMatchFailuresExpected)
               ELSE rightmostMatchFailuresExpected
     ELSE /\ ppc' = "returned"
          /\ outcome' = Returned(ret)
          /\ UNCHANGED rightmostMatchFailuresExpected
  /\ UNCHANGED <<compileVars, utilVars, emitted, input, pos, rightmostMatchFailuresPos,
                 cache, reportMatchFailures, stack, ret, last, evaluated>>

\* The concatenation of the sequences of a sequence.
RECURSIVE Flatten(_)
Flatten(seqs) == IF seqs = <<>> THEN <<>> ELSE Head(seqs) \o Flatten(Tail(seqs))

\* The regexp a class fragment matches with, as the sequence of the
\* characters of its source.
classRegexp(node) ==
  IF Len(node.parts) > 0
  THEN <<"/", "^", "[">>
         \o (IF node.inverted THEN <<"^">> ELSE <<>>)
         \o Flatten([i \in 1..Len(node.parts) |->
                       IF Len(node.parts[i]) = 2
                       THEN quoteForClass(node.parts[i][1]) \o <<"-">>
                              \o quoteForClass(node.parts[i][2])
                       ELSE quoteForClass(node.parts[i][1])])
         \o <<"]", "/">>
  ELSE IF node.inverted
  THEN <<"/", "^", "[", "\\", "S", "\\", "s", "]", "/">>
  ELSE <<"/", "^", "(", "?", "!", ")", "/">>

\* The first atom of the source of the ranges of a regexp class: its length
\* and the characters of ClassAlphabet it stands for (none of them is white
\* space).
atomLength(src) == IF src[1] = "\\" THEN 2 ELSE 1

atomChars(src) ==
  IF src[1] # "\\" THEN {src[1]}
  ELSE CASE src[2] = "S" -> ClassAlphabet
         [] src[2] = "s" -> {}
         [] src[2] = "n" -> {"\n"}
         [] src[2] = "r" -> {"\r"}
         [] OTHER -> {src[2]}

\* The characters of ClassAlphabet the ranges of a regexp class stand for:
\* atoms and ranges atom-atom, by character code.
RECURSIVE classRanges(_)
classRanges(src) ==
  IF src = <<>> THEN {}
  ELSE LET rest == SubSeq(src, atomLength(src) + 1, Len(src))
       IN IF Len(rest) >= 2 /\ rest[1] = "-"
          THEN LET high == Tail(rest)
                   codes == {charCode(c) : c \in atomChars(src)}
                   highCodes == {charCode(c) : c \in atomChars(high)}
               IN {c \in ClassAlphabet :
                     /\ \E low \in codes : low <= charCode(c)
                     /\ \E h \in highCodes : charCode(c) <= h}
                    \cup classRanges(SubSeq(high, atomLength(high) + 1, Len(high)))
          ELSE atomChars(src) \cup classRanges(rest)

\* string.match(regexp) !== null for the regexps /^(?!)/ and /^[...]/, whose
\* class is inverted if its source starts with ^ (every ] inside is escaped).
regexpMatches(string, regexp) ==
  IF regexp[3] # "["
  THEN FALSE
  ELSE LET body == SubSeq(regexp, 4, Len(regexp) - 2)
           inverted == body # <<>> /\ body[1] = "^"
           ranges == IF inverted THEN Tail(body) ELSE body
       IN string # <<>> /\ ((string[1] \in classRanges(ranges)) # inverted)

\* class
MatchClass ==
  /\ Fragment("class")
  /\ LET matched == regexpMatches(SubSeq(input, pos + 1, Len(input)),
                                  classRegexp(Top.node))
     IN /\ Finish(Top, IF matched THEN Str(input[pos + 1]) ELSE Null,
                  IF matched THEN pos + 1 ELSE pos, FALSE)
        /\ Failures(IF matched THEN noFailure
                    ELSE reportFailure(reportMatchFailures, Top.node.rawText))
  /\ UNCHANGED <<cache, reportMatchFailures, evaluated>>
  /\ Fixed

ParseNext ==
  \/ MatchClass
  \/ MatchLiteral \/ MatchAny \/ CallRule \/ RuleCached \/ RuleEnter \/ RuleReturn
  \/ ChoiceStart \/ ChoiceReturn \/ SequenceStart \/ SequenceReturn \/ RunLabeled
  \/ LookaheadStart \/ SimpleAndReturn \/ SimpleNotReturn \/ RunPredicate
  \/ ExpressionStart \/ OptionalReturn \/ ZeroOrMoreReturn \/ OneOrMoreReturn
  \/ ActionReturn \/ ParseEnd

(* ------------------------------ parse --------------------------------- *)

\* The characters of the inputs.
Alphabet == {"a", "b"}

Inputs == UNION {[1..n -> Alphabet] : n \in 0..MaxInput}

\* The expressions the start rule of a parsed grammar is built from.
Elements ==
  {Literal("a"), RuleRef("r"), RuleRef("s"),
   Optional(Literal("b")), SimpleNot(RuleRef("r")), ZeroOrMore(Literal("b")),
   Action(Literal("a"), "return null"),
   Action(Labeled("x", AnyChar), "return x"),
   RuleRef("toString")}

\* Expressions whose sub-expression is an action that returns null.
NullAction == Action(Literal("a"), "return null")

\* x:. "a" y:.
Labels == Sequence(<<Labeled("x", AnyChar), Literal("a"), Labeled("y", AnyChar)>>)

MoreElements ==
  {SimpleAnd(NullAction), SimpleNot(NullAction), Optional(NullAction),
   Action(Labels, "return arguments"), Action(Labels, "return y"),
   Action(Labeled("x", AnyChar), "return arguments"),
   Action(Literal("a"), "return arguments"),
   Class(<<<<"a">>>>, FALSE, "[a]")}

\* The expressions of the start rules: all e1, e2, e3 of Elements, and
\* s / e "a" and s / e (x:. { return x }) for e of MoreElements.
Triples ==
  (Elements \X Elements \X Elements)
    \cup ({RuleRef("s")} \X MoreElements
            \X {Literal("a"), Action(Labeled("x", AnyChar), "return x")})

\* The grammars parsed with: start = e1 / e2 e3, with the rules
\*   r "letters" = "a"+
\*   s = &{return true} !{return false} &"b"
ParseGrammar(e1, e2, e3) ==
  Grammar(<<Rule("start", "", Choice(<<e1, Sequence(<<e2, e3>>)>>)),
            Rule("r", "letters", OneOrMore(Literal("a"))),
            Rule("s", "", Sequence(<<SemanticAnd("return true"),
                                     SemanticNot("return false"),
                                     SimpleAnd(Literal("b"))>>))>>)

\* No parse is running (while compileParser is looked at).
ParseIdle ==
  /\ emitted = NoSource
  /\ input = <<>>
  /\ pos = 0
  /\ rightmostMatchFailuresPos = 0
  /\ rightmostMatchFailuresExpected = <<>>
  /\ cache = <<>>
  /\ reportMatchFailures = TRUE
  /\ stack = <<>>
  /\ ret = Null
  /\ ppc = "idle"
  /\ outcome = NoOutcome
  /\ last = NoFragment
  /\ evaluated = {}

\* No compilation is running (while a parse is looked at).
CompileIdle ==
  /\ ast = [type |-> "grammar", rules |-> <<>>, startRule |-> ""]
  /\ ast0 = ast
  /\ cpc = "idle"
  /\ steps = <<>>
  /\ thrown = NoError
  /\ source = NoSource
  /\ parser = NoParser

\* PEG.buildParser(grammar).parse(input): the parser is compiled as
\* compileParser does and its parse method is called, which sets up the
\* variables and calls parse_<startRule>({ reportMatchFailures: true }).
ParseInit ==
  /\ CompileIdle
  /\ UtilIdle
  /\ \E e \in Triples :
       LET grammar == ParseGrammar(e[1], e[2], e[3])
       IN /\ checkReferences(grammar, grammar) = NoError
          /\ checkLeftRecursion(grammar, grammar, <<>>) = NoError
          /\ emitted = compileNode(removeProxyRules(grammar))
  /\ input \in Inputs
  /\ pos = 0
  /\ rightmostMatchFailuresPos = 0
  /\ rightmostMatchFailuresExpected = <<>>
  /\ cache = <<>>
  /\ reportMatchFailures = TRUE
  /\ stack = <<Frame(FunctionNamed(emitted.startRule), 0)>>
  /\ ret = Null
  /\ ppc = "running"
  /\ outcome = NoOutcome
  /\ last = NoFragment
  /\ evaluated = {}

\* compileParser(ast) is called with a grammar; no parse is running.
CompileInit ==
  /\ ParseIdle
  /\ UtilIdle
  /\ \E k \in 1..MaxRules : \E body \in [1..k -> Bodies] : ast = GrammarOf(body)
  /\ ast0 = ast
  /\ cpc = "check0"
  /\ steps = <<>>
  /\ thrown = NoError
  /\ source = NoSource
  /\ parser = NoParser

SpecCompile ==
  CompileInit /\ [][CompileNext /\ UNCHANGED <<parseVars, utilVars>>]_vars

SpecParse == ParseInit /\ [][ParseNext]_vars

(* ------------------- parse with loops and recursion ------------------- *)

\* The deepest stack of fragments and the largest number of sub-fragments
\* of one fragment that are followed: more than any parse of an input of
\* MaxInput characters needs that enters no rule twice at a position and
\* consumes a character in every turn of a loop.
LoopDepth == 3 * (MaxInput + 3)

LoopEvaluations == MaxInput + 3

Capped ==
  /\ Len(stack) <= LoopDepth
  /\ \A i \in 1..Len(stack) : stack[i].k <= LoopEvaluations

\* Start rules e1 / e2 e3 whose loops run a literal and in which no rule
\* refers to itself.
ConsumingTriples ==
  {<<Literal("a"), RuleRef("r"), RuleRef("s")>>,
   <<Optional(Literal("b")), SimpleNot(RuleRef("r")), ZeroOrMore(Literal("b"))>>,
   <<RuleRef("r"), RuleRef("r"), Action(Labeled("x", AnyChar), "return x")>>,
   <<RuleRef("s"), Class(<<<<"a">>>>, FALSE, "[a]"), Literal("a")>>}

\* Start rules with a reference to the start rule after an optional element,
\* and with loops of expressions that match without consuming:
\*   "a" / "b"? start      "a" / ("b"?)* "a"      (!"b")+ / "b" "b"
RepeatingTriples ==
  {<<Literal("a"), Optional(Literal("b")), RuleRef("start")>>,
   <<Literal("a"), ZeroOrMore(Optional(Literal("b"))), Literal("a")>>,
   <<OneOrMore(SimpleNot(Literal("b"))), Literal("b"), Literal("b")>>}

LoopTriples == ConsumingTriples \cup RepeatingTriples

\* parse is called on the parser of one of these grammars, which both
\* checks have accepted.
LoopInit ==
  /\ CompileIdle
  /\ UtilIdle
  /\ \E e \in LoopTriples :
       LET grammar == ParseGrammar(e[1], e[2], e[3])
       IN /\ checkReferences(grammar, grammar) = NoError
          /\ checkLeftRecursion(grammar, grammar, <<>>) = NoError
          /\ emitted = compileNode(removeProxyRules(grammar))
  /\ input \in Inputs
  /\ pos = 0
  /\ rightmostMatchFailuresPos = 0
  /\ rightmostMatchFailuresExpected = <<>>
  /\ cache = <<>>
  /\ reportMatchFailures = TRUE
  /\ stack = <<Frame(FunctionNamed(emitted.startRule), 0)>>
  /\ ret = Null
  /\ ppc = "running"
  /\ outcome = NoOutcome
  /\ last = NoFragment
  /\ evaluated = {}

LoopNext == Capped /\ ParseNext

SpecLoop == LoopInit /\ [][LoopNext]_vars

(* ------------------- several parse calls on a parser ------------------ *)

\* Largest number of parse calls made after the first one.
MaxParses == 2

\* The start rules of the parsers called more than once:
\*   "b" / r (x:. { return x })      r / r "b"
CallTriples ==
  {<<Literal("b"), RuleRef("r"), Action(Labeled("x", AnyChar), "return x")>>,
   <<RuleRef("r"), RuleRef("r"), Literal("b")>>}

\* The inputs of the calls.
CallInputs == {<<"a">>, <<"b">>, <<"a", "b">>, <<"a", "a">>}

\* var cache of a parse call that goes on with the object of the call before.
keptCache(c) ==
  c

\* var cache = {}: the cache of a parse call, whatever the cache c of the
\* call made before it holds.
newCache(c) ==
  <<>>

\* parse(string) is entered: its variables are set up and the function of
\* the start rule is called with a new context object.
Enter(string) ==
  /\ input' = string
  /\ pos' = 0
  /\ rightmostMatchFailuresPos' = 0
  /\ rightmostMatchFailuresExpected' = <<>>
  /\ cache' = newCache(cache)
  /\ reportMatchFailures' = TRUE
  /\ stack' = <<[Frame(FunctionNamed(emitted.startRule), 0) EXCEPT !.report = TRUE]>>
  /\ ret' = Null
  /\ ppc' = "running"
  /\ outcome' = NoOutcome
  /\ last' = NoFragment
  /\ evaluated' = {}
  /\ parses' = parses + 1

\* The first parse call on a parser.
CallsInit ==
  /\ CompileIdle
  /\ UtilIdle
  /\ \E e \in CallTriples :
       LET grammar == ParseGrammar(e[1], e[2], e[3])
       IN /\ checkReferences(grammar, grammar) = NoError
          /\ checkLeftRecursion(grammar, grammar, <<>>) = NoError
          /\ emitted = compileNode(removeProxyRules(grammar))
  /\ input \in CallInputs
  /\ pos = 0
  /\ rightmostMatchFailuresPos = 0
  /\ rightmostMatchFailuresExpected = <<>>
  /\ cache = <<>>
  /\ reportMatchFailures = TRUE
  /\ stack = <<Frame(FunctionNamed(emitted.startRule), 0)>>
  /\ ret = Null
  /\ ppc = "running"
  /\ outcome = NoOutcome
  /\ last = NoFragment
  /\ evaluated = {}

\* The variables of the running parse call.
Activation ==
  [input |-> input, pos |-> pos,
   rightmostMatchFailuresPos |-> rightmostMatchFailuresPos,
   rightmostMatchFailuresExpected |-> rightmostMatchFailuresExpected,
   cache |-> cache, reportMatchFailures |-> reportMatchFailures,
   stack |-> stack, ret |-> ret, last |-> last, evaluated |-> evaluated]

\* parse is called again after a call has ended.
ParseAgain ==
  /\ ppc = "idle" /\ parses < MaxParses
  /\ \E string \in CallInputs : Enter(string)
  /\ UNCHANGED <<compileVars, calls, identifierVars, checking, emitted, suspended, finished>>

\* parse is called by the code of an action of the running parse, which
\* waits for it.
ParseWithin ==
  /\ Fragment("action") /\ Top.k = 1 /\ ret # Null
  /\ parses < MaxParses
  /\ suspended' = Append(suspended, Activation)
  /\ \E string \in CallInputs : Enter(string)
  /\ UNCHANGED <<compileVars, calls, identifierVars, checking, emitted, finished>>

\* A parse call has returned or thrown: the call that waited for it goes
\* on (whatever the outcome was), with its own variables.
ParseReturn ==
  /\ ppc \in {"returned", "threw"}
  /\ finished' = finished \cup {[input |-> input, outcome |-> outcome]}
  /\ IF suspended = <<>>
     THEN /\ ppc' = "idle"
          /\ input' = <<>>
          /\ pos' = 0
          /\ rightmostMatchFailuresPos' = 0
          /\ rightmostMatchFailuresExpected' = <<>>
          /\ cache' = cache  \* the object is left behind, with what it holds
          /\ reportMatchFailures' = TRUE
          /\ stack' = <<>>
          /\ ret' = Null
          /\ last' = NoFragment
          /\ evaluated' = {}
          /\ UNCHANGED suspended
     ELSE LET caller == suspended[Len(suspended)]
          IN /\ ppc' = "running"
             /\ input' = caller.input
             /\ pos' = caller.pos
             /\ rightmostMatchFailuresPos' = caller.rightmostMatchFailuresPos
             /\ rightmostMatchFailuresExpected' = caller.rightmostMatchFailuresExpected
             /\ cache' = caller.cache
             /\ reportMatchFailures' = caller.reportMatchFailures
             /\ stack' = [caller.stack EXCEPT ![Len(caller.stack)].k = 2]
             /\ ret' = caller.ret
             /\ last' = caller.last
             /\ evaluated' = caller.evaluated
             /\ suspended' = SubSeq(suspended, 1, Len(suspended) - 1)
  /\ outcome' = NoOutcome
  /\ UNCHANGED <<compileVars, calls, identifierVars, checking, emitted, parses>>

\* action: the function has made its parse call and returns.
ActionResume ==
  /\ Fragment("action") /\ Top.k = 2
  /\ Finish(Resumed([Top EXCEPT !.k = 1]), callAction(Top.node, ret), pos, FALSE)
  /\ Silent /\ Fixed

CallsNext ==
  \/ ParseAgain \/ ParseWithin \/ ParseReturn \/ ActionResume
  \/ MatchLiteral \/ MatchAny \/ CallRule \/ RuleCached \/ RuleEnter \/ RuleReturn
  \/ ChoiceStart \/ ChoiceReturn \/ SequenceStart \/ SequenceReturn \/ RunLabeled
  \/ ExpressionStart \/ OneOrMoreReturn \/ ActionReturn \/ ParseEnd

SpecCalls == CallsInit /\ [][CallsNext]_vars

(* --------------------- rules with a display name ---------------------- *)

\* The bodies of the rule r "letters":
\*   "a"+      "a" "b"      &"a"      "a" { return null }
NamedBodies ==
  {OneOrMore(Literal("a")), Sequence(<<Literal("a"), Literal("b")>>),
   SimpleAnd(Literal("a")), NullAction}

\* The first alternatives of the start rule: r is reached with reporting on
\* ("b", r) or first with reporting off (!r) and then from the cache.
NamedFirst == {Literal("b"), RuleRef("r"), SimpleNot(RuleRef("r"))}

\* start = e1 / r "b" with r "letters" = body
NamedGrammar(e1, body) ==
  Grammar(<<Rule("start", "", Choice(<<e1, Sequence(<<RuleRef("r"), Literal("b")>>)>>)),
            Rule("r", "letters", body)>>)

NamedInit ==
  /\ CompileIdle
  /\ UtilIdle
  /\ \E e1 \in NamedFirst, body \in NamedBodies :
       LET grammar == NamedGrammar(e1, body)
       IN /\ checkReferences(grammar, grammar) = NoError
          /\ checkLeftRecursion(grammar, grammar, <<>>) = NoError
          /\ emitted = compileNode(removeProxyRules(grammar))
  /\ input \in Inputs
  /\ pos = 0
  /\ rightmostMatchFailuresPos = 0
  /\ rightmostMatchFailuresExpected = <<>>
  /\ cache = <<>>
  /\ reportMatchFailures = TRUE
  /\ stack = <<Frame(FunctionNamed(emitted.startRule), 0)>>
  /\ ret = Null
  /\ ppc = "running"
  /\ outcome = NoOutcome
  /\ last = NoFragment
  /\ evaluated = {}

NamedNext ==
  \/ MatchLiteral \/ CallRule \/ RuleCached \/ RuleEnter \/ RuleReturn
  \/ ChoiceStart \/ ChoiceReturn \/ SequenceStart \/ SequenceReturn
  \/ LookaheadStart \/ SimpleAndReturn \/ SimpleNotReturn
  \/ ExpressionStart \/ OneOrMoreReturn \/ ActionReturn \/ ParseEnd

SpecNamed == NamedInit /\ [][NamedNext]_vars

(* ------------------- parse with and without the cache ----------------- *)

\* The start rules of the parsers run with and without the cache: r is
\* called twice at a position, first within a lookahead or with reporting on.
\*   &r / r "b"      !r / r "b"      r / r "b"      "b" / r (x:. { return x })
MemoTriples ==
  {<<SimpleAnd(RuleRef("r")), RuleRef("r"), Literal("b")>>,
   <<SimpleNot(RuleRef("r")), RuleRef("r"), Literal("b")>>,
   <<RuleRef("r"), RuleRef("r"), Literal("b")>>,
   <<Literal("b"), RuleRef("r"), Action(Labeled("x", AnyChar), "return x")>>}

MemoInit ==
  /\ CompileIdle
  /\ UtilIdle
  /\ \E e \in MemoTriples :
       LET grammar == ParseGrammar(e[1], e[2], e[3])
       IN /\ checkReferences(grammar, grammar) = NoError
          /\ checkLeftRecursion(grammar, grammar, <<>>) = NoError
          /\ emitted = compileNode(removeProxyRules(grammar))
  /\ input \in Inputs
  /\ pos = 0
  /\ rightmostMatchFailuresPos = 0
  /\ rightmostMatchFailuresExpected = <<>>
  /\ cache = <<>>
  /\ reportMatchFailures = TRUE
  /\ stack = <<Frame(FunctionNamed(emitted.startRule), 0)>>
  /\ ret = Null
  /\ ppc = "running"
  /\ outcome = NoOutcome
  /\ last = NoFragment
  /\ evaluated = {}

\* The elements of an array.
Range(array) == {array[i] : i \in 1..Len(array)}

\* The parse with the cache has ended: what it gave is kept and the same
\* input is parsed by the same functions without the test of the cache
\* (parses = 1 from here on).
MemoAgain ==
  /\ ppc \in {"returned", "threw"} /\ parses = 0
  /\ finished' = {[input |-> input, outcome |-> outcome,
                   failuresPos |-> rightmostMatchFailuresPos,
                   expected |-> Range(rightmostMatchFailuresExpected)]}
  /\ Enter(input)
  /\ UNCHANGED <<compileVars, calls, identifierVars, checking, emitted, suspended>>

\* rule, with the cache: the cached result is returned.
RuleCachedMemo == parses = 0 /\ RuleCached

\* rule, without the cache: the body runs although a result is cached.
RuleEnterUncached ==
  /\ parses = 1
  /\ Fragment("rule") /\ Top.k = 0
  /\ Cached(cacheKeyOf(Top.node.name, pos))
  /\ Run([Top EXCEPT !.cacheKey = cacheKeyOf(Top.node.name, pos),
                     !.savedReportMatchFailures = reportMatchFailures],
         Top.node.expression)
  /\ reportMatchFailures' =
       IF Top.node.displayName # "" THEN FALSE ELSE reportMatchFailures
  /\ UNCHANGED <<cache, evaluated, rightmostMatchFailuresPos,
                 rightmostMatchFailuresExpected>>
  /\ Fixed

MemoNext ==
  \/ MemoAgain \/ RuleCachedMemo \/ RuleEnterUncached
  \/ MatchLiteral \/ MatchAny \/ CallRule \/ RuleEnter \/ RuleReturn
  \/ ChoiceStart \/ ChoiceReturn \/ SequenceStart \/ SequenceReturn \/ RunLabeled
  \/ LookaheadStart \/ SimpleAndReturn \/ SimpleNotReturn
  \/ ExpressionStart \/ OneOrMoreReturn \/ ActionReturn \/ ParseEnd

SpecMemo == MemoInit /\ [][MemoNext]_vars

(* ------------------- with and without the proxy pass ------------------- *)

\* The display names a rule of these grammars carries: none, or "letters".
DisplayNames == {"", "letters"}

\* The grammars the pass is compared on: a proxy rule p behind the start
\* rule, or the start rule itself a proxy,
\*   start = first / p "b"      start <d> = q
\*   p <d> = q                  q <d2> = target
\*   q <d2> = target
ProxyGrammars ==
  {Grammar(<<Rule("start", "", Choice(<<first, Sequence(<<RuleRef("p"), Literal("b")>>)>>)),
             Rule("p", d, RuleRef("q")),
             Rule("q", d2, target)>>) :
     <<first, d, d2, target>> \in
       {Literal("b"), RuleRef("p"), RuleRef("q")} \X DisplayNames \X DisplayNames
         \X {Literal("a"), OneOrMore(Literal("a"))}}
  \cup
  {Grammar(<<Rule("start", d, RuleRef("q")), Rule("q", d2, target)>>) :
     <<d, d2, target>> \in
       DisplayNames \X DisplayNames \X {Literal("a"), OneOrMore(Literal("a"))}}

\* The function of the start rule in an emitted source.
startFunction(src) ==
  src.parseFunctionDefinitions[
    CHOOSE i \in 1..Len(src.parseFunctionDefinitions) :
      src.parseFunctionDefinitions[i].name = src.startRule].rule

\* parse is called on the parser compileParser builds of a grammar that
\* passed the checks: ast0 is the grammar, ast what the pass made of it.
ProxyInit ==
  /\ UtilIdle
  /\ ast0 \in ProxyGrammars
  /\ checkReferences(ast0, ast0) = NoError
  /\ checkLeftRecursion(ast0, ast0, <<>>) = NoError
  /\ ast = removeProxyRules(ast0)
  /\ cpc = "idle"
  /\ steps = <<>>
  /\ thrown = NoError
  /\ source = NoSource
  /\ parser = NoParser
  /\ emitted = compileNode(ast)
  /\ input \in Inputs
  /\ pos = 0
  /\ rightmostMatchFailuresPos = 0
  /\ rightmostMatchFailuresExpected = <<>>
  /\ cache = <<>>
  /\ reportMatchFailures = TRUE
  /\ stack = <<Frame(startFunction(emitted), 0)>>
  /\ ret = Null
  /\ ppc = "running"
  /\ outcome = NoOutcome
  /\ last = NoFragment
  /\ evaluated = {}

\* The parse has ended: what it gave is kept and the same input is parsed
\* by the parser emitted from the grammar as it was before the pass
\* (parses = 1 from here on).
ProxyAgain ==
  /\ ppc \in {"returned", "threw"} /\ parses = 0
  /\ finished' = {[input |-> input, outcome |-> outcome]}
  /\ emitted' = compileNode(ast0)
  /\ input' = input
  /\ pos' = 0
  /\ rightmostMatchFailuresPos' = 0
  /\ rightmostMatchFailuresExpected' = <<>>
  /\ cache' = newCache(cache)
  /\ reportMatchFailures' = TRUE
  /\ stack' = <<[Frame(startFunction(emitted'), 0) EXCEPT !.report = TRUE]>>
  /\ ret' = Null
  /\ ppc' = "running"
  /\ outcome' = NoOutcome
  /\ last' = NoFragment
  /\ evaluated' = {}
  /\ parses' = parses + 1
  /\ UNCHANGED <<compileVars, calls, identifierVars, checking, suspended>>

ProxyNext ==
  \/ ProxyAgain
  \/ MatchLiteral \/ CallRule \/ RuleCached \/ RuleEnter \/ RuleReturn
  \/ ChoiceStart \/ ChoiceReturn \/ SequenceStart \/ SequenceReturn
  \/ ExpressionStart \/ OneOrMoreReturn \/ ParseEnd

SpecProxy == ProxyInit /\ [][ProxyNext]_vars

(* --------------- the left-recursion check, call by call ---------------- *)

\* The rule bodies of the grammars the check is followed on: a terminal, a
\* proxy, and a reference at the left edge of a sequence inside a choice,
\* every reference to one of the declarable rule names.
LeftBodies ==
  {Literal("x")}
  \cup {RuleRef(RuleNames[i]) : i \in 1..MaxRules}
  \cup {Choice(<<Literal("x"),
                 Sequence(<<Optional(RuleRef(RuleNames[i])), Literal("y")>>)>>) :
          i \in 1..MaxRules}

\* Calls that have not returned: never more than five for one applied rule
\* (rule, choice, sequence, optional, rule_ref) and the one of the grammar.
LeftDepth == 5 * MaxRules + 2

\* check(node, appliedRules) has just been called.
CheckCall(node, appliedRules) ==
  [node |-> node, appliedRules |-> appliedRules, k |-> 0]

\* The call of check that is running.
Checked == checking[Len(checking)]

\* The running call calls check(node, appliedRules).
Check(node, appliedRules) ==
  /\ Len(checking) < LeftDepth
  /\ checking' = Append([checking EXCEPT ![Len(checking)].k = @ + 1],
                        CheckCall(node, appliedRules))
  /\ UNCHANGED <<compileVars, parseVars, calls, identifierVars, callVars>>

\* The running call returns.
CheckReturn ==
  /\ checking' = SubSeq(checking, 1, Len(checking) - 1)
  /\ UNCHANGED <<compileVars, parseVars, calls, identifierVars, callVars>>

\* grammar: for (var name in node.rules) { check(ast.rules[name], appliedRules); }
CheckGrammar ==
  /\ checking # <<>> /\ Checked.node.type = "grammar"
  /\ IF Checked.k < Len(Keys(Checked.node.rules))
     THEN Check(Get(ast.rules, Keys(Checked.node.rules)[Checked.k + 1]),
                Checked.appliedRules)
     ELSE CheckReturn

\* rule: check(node.expression, appliedRules.concat(node.name))
CheckRule ==
  /\ checking # <<>> /\ Checked.node.type = "rule"
  /\ IF Checked.k = 0
     THEN Check(Checked.node.expression,
                Append(Checked.appliedRules, Checked.node.name))
     ELSE CheckReturn

\* choice: each(node.alternatives, function(alternative) { check(...) })
CheckChoice ==
  /\ checking # <<>> /\ Checked.node.type = "choice"
  /\ IF Checked.k < Len(Checked.node.alternatives)
     THEN Check(Checked.node.alternatives[Checked.k + 1], Checked.appliedRules)
     ELSE CheckReturn

\* sequence: if (node.elements.length > 0) { check(node.elements[0], ...) }
CheckSequence ==
  /\ checking # <<>> /\ Checked.node.type = "sequence"
  /\ IF Checked.k = 0 /\ Len(Checked.node.elements) > 0
     THEN Check(Checked.node.elements[1], Checked.appliedRules)
     ELSE CheckReturn

\* checkExpression: check(node.expression, appliedRules)
CheckExpression ==
  /\ checking # <<>> /\ Checked.node.type \in ExpressionTypes \ {"rule"}
  /\ IF Checked.k = 0
     THEN Check(Checked.node.expression, Checked.appliedRules)
     ELSE CheckReturn

\* rule_ref: the reference to a rule that is applied throws, any other
\* reference checks the rule it names.
CheckRuleRef ==
  /\ checking # <<>> /\ Checked.node.type = "rule_ref"
  /\ IF Checked.k = 0
     THEN IF contains(Checked.appliedRules, Checked.node.name)
          THEN /\ thrown' = GrammarError("Left recursion detected for rule \""
                                           \o Checked.node.name \o "\".")
               /\ checking' = <<>>
               /\ cpc' = "threw"
               /\ steps' = Append(steps, "check1")
               /\ UNCHANGED <<ast, ast0, source, parser, parseVars, calls,
                              identifierVars, callVars>>
          ELSE Check(Get(ast.rules, Checked.node.name), Checked.appliedRules)
     ELSE CheckReturn

\* nop: literal, any, class return at once.
CheckNop ==
  /\ checking # <<>> /\ Checked.node.type \in LeafTypes
  /\ CheckReturn

\* check(ast, []) has returned: this._checks[1] is done.
CheckEnd ==
  /\ cpc = "check1" /\ checking = <<>>
  /\ steps' = Append(steps, "check1")
  /\ cpc' = "pass0"
  /\ UNCHANGED <<ast, ast0, thrown, source, parser, parseVars, utilVars>>

\* this._checks[1](ast) is called with a grammar whose references resolve:
\* check(ast, []).
LeftInit ==
  /\ ParseIdle
  /\ calls = <<>>
  /\ uniqueIdentifierCounters = <<>>
  /\ generated = <<>>
  /\ compiled = NoRule
  /\ suspended = <<>>
  /\ finished = {}
  /\ parses = 0
  /\ \E k \in 1..MaxRules : \E body \in [1..k -> LeftBodies] : ast = GrammarOf(body)
  /\ checkReferences(ast, ast) = NoError
  /\ ast0 = ast
  /\ cpc = "check1"
  /\ steps = <<"check0">>
  /\ thrown = NoError
  /\ source = NoSource
  /\ parser = NoParser
  /\ checking = <<CheckCall(ast, <<>>)>>

LeftNext ==
  \/ CheckGrammar \/ CheckRule \/ CheckChoice \/ CheckSequence
  \/ CheckExpression \/ CheckRuleRef \/ CheckNop \/ CheckEnd

\* Every call of check that can be made or returned from is, in the end.
SpecLeft == LeftInit /\ [][LeftNext]_vars /\ WF_vars(LeftNext)

(* ---------------------------- class alone ----------------------------- *)

\* Largest number of parts of a class.
MaxParts == 2

\* The parts of classes: every character but "_", and some ranges.
ClassParts ==
  {<<c>> : c \in ClassAlphabet \ {"_"}}
    \cup {<<"a", "a">>, <<"a", "b">>, <<"^", "a">>, <<"]", "_">>}

\* rawText as parse_class builds it.
classRawText(parts, inverted) ==
  "[" \o (IF inverted THEN "^" ELSE "")
      \o Join(Flatten([i \in 1..Len(parts) |->
                         IF Len(parts[i]) = 2
                         THEN quoteForClass(parts[i][1]) \o <<"-">>
                                \o quoteForClass(parts[i][2])
                         ELSE quoteForClass(parts[i][1])]))
      \o "]"

\* The inputs a class is matched with: none or one character.
ClassInputs == {<<>>} \cup {<<c>> : c \in ClassAlphabet}

\* parse is called on the parser of the grammar start = <class>.
ClassInit ==
  /\ CompileIdle
  /\ UtilIdle
  /\ \E n \in 0..MaxParts : \E parts \in [1..n -> ClassParts] :
       \E inverted \in BOOLEAN :
         LET grammar ==
               Grammar(<<Rule("start", "",
                              Class(parts, inverted, classRawText(parts, inverted)))>>)
         IN emitted = compileNode(removeProxyRules(grammar))
  /\ input \in ClassInputs
  /\ pos = 0
  /\ rightmostMatchFailuresPos = 0
  /\ rightmostMatchFailuresExpected = <<>>
  /\ cache = <<>>
  /\ reportMatchFailures = TRUE
  /\ stack = <<Frame(FunctionNamed(emitted.startRule), 0)>>
  /\ ret = Null
  /\ ppc = "running"
  /\ outcome = NoOutcome
  /\ last = NoFragment
  /\ evaluated = {}

ClassNext == RuleEnter \/ MatchClass \/ RuleReturn \/ ParseEnd

SpecClass == ClassInit /\ [][ClassNext]_vars

(* ------------------------- matchFailed alone -------------------------- *)

\* Largest number of matchFailed calls looked at.
MaxCalls == 4

\* The strings matchFailed is called with.
Expectations == {"\"a\"", "any character"}

\* parse has set up its variables and nothing has been matched yet.
MatchFailedInit == CompileIdle /\ ParseIdle /\ UtilIdle

\* A fragment that did not match at position p calls matchFailed(failure).
CallMatchFailed ==
  /\ Len(calls) < MaxCalls
  /\ \E p \in 0..MaxInput, failure \in Expectations :
       /\ pos' = p
       /\ Failures(matchFailed(failure, p, rightmostMatchFailuresPos,
                               rightmostMatchFailuresExpected))
       /\ calls' = Append(calls, [pos |-> p, failure |-> failure])
  /\ UNCHANGED <<compileVars, identifierVars, callVars, checking, emitted, input, cache,
                 reportMatchFailures, stack, ret, ppc, outcome, last, evaluated>>

MatchFailedNext == CallMatchFailed

SpecMatchFailed == MatchFailedInit /\ [][MatchFailedNext]_vars

(* ----------------------- unique identifiers alone --------------------- *)

\* Largest number of generateUniqueIdentifier calls made one by one after a
\* reset.
MaxIdentifiers == 4

\* The prefixes the compile functions generate identifiers with.
Prefixes == {"result", "savedPos", "savedReportMatchFailuresVar"}

\* generateUniqueIdentifier(prefix) with one counter for all the prefixes.
generateWithOneCounter(counters, prefix) ==
  LET current == Get(counters, "")
      value == IF Falsy(current) THEN Num(0) ELSE current
  IN [counters |-> Put(counters, "", Num(value.v + 1)),
      identifier |-> prefix \o ToString(value.v)]

\* generateUniqueIdentifier(prefix): the counters afterwards and the
\* identifier returned.
generateUniqueIdentifier(counters, prefix) ==
  LET current == Get(counters, prefix)
      value == IF Falsy(current) THEN Num(0) ELSE current
      old == IF value.type = "number" THEN value ELSE NaN
      new == IF value.type = "number" THEN Num(value.v + 1) ELSE NaN
  IN [counters |-> Put(counters, prefix, new),
      identifier |-> prefix \o (IF old = NaN THEN "NaN" ELSE ToString(old.v))]

\* resetUniqueIdentifierCounters() that leaves the counters as they are.
keepUniqueIdentifierCounters(counters) ==
  counters

\* resetUniqueIdentifierCounters(): the counters afterwards.
resetUniqueIdentifierCounters(counters) ==
  <<>>

\* One more call of generateUniqueIdentifier in a compilation st, which holds
\* the counters and the calls made since the last reset.
generate(st, prefix) ==
  LET call == generateUniqueIdentifier(st.counters, prefix)
  IN [counters |-> call.counters,
      generated |-> Append(st.generated,
                           [prefix |-> prefix, identifier |-> call.identifier])]

\* n calls with the same prefix.
RECURSIVE generateAll(_, _, _)
generateAll(st, prefix, n) ==
  IF n = 0 THEN st ELSE generateAll(generate(st, prefix), prefix, n - 1)

\* The generateUniqueIdentifier calls of the compile function of a node, in
\* the order they are made.
RECURSIVE compileIdentifiers(_, _)
RECURSIVE compileElements(_, _)
RECURSIVE compileAlternatives(_, _)

\* sequence: the elements are compiled from the last to the first.
compileElements(elements, st) ==
  IF elements = <<>> THEN st
  ELSE compileElements(SubSeq(elements, 1, Len(elements) - 1),
                       compileIdentifiers(elements[Len(elements)], st))

\* choice: from the last alternative to the first, an identifier for its
\* result, then the alternative.
compileAlternatives(alternatives, st) ==
  IF alternatives = <<>> THEN st
  ELSE compileAlternatives(
         SubSeq(alternatives, 1, Len(alternatives) - 1),
         compileIdentifiers(alternatives[Len(alternatives)], generate(st, "result")))

compileIdentifiers(node, st) ==
  CASE node.type = "rule" ->
         compileIdentifiers(node.expression, generate(st, "result"))
    [] node.type = "choice" -> compileAlternatives(node.alternatives, st)
    [] node.type = "sequence" ->
         compileElements(node.elements,
                         generateAll(generate(st, "savedPos"), "result",
                                     Len(node.elements)))
    [] node.type = "labeled" -> compileIdentifiers(node.expression, st)
    [] node.type \in {"simple_and", "simple_not"} ->
         compileIdentifiers(
           node.expression,
           generate(generate(generate(st, "savedPos"),
                             "savedReportMatchFailuresVar"), "result"))
    [] node.type \in {"semantic_and", "semantic_not"} -> generate(st, "savedPos")
    [] node.type \in {"optional", "zero_or_more", "one_or_more", "action"} ->
         compileIdentifiers(node.expression, generate(st, "result"))
    [] OTHER -> st

\* The rules whose compilation is looked at: those of some of the grammars
\* parsed, which hold every type of node.
CompiledTriples ==
  {<<Literal("a"), RuleRef("r"), RuleRef("s")>>,
   <<Optional(Literal("b")), SimpleNot(RuleRef("r")), ZeroOrMore(Literal("b"))>>,
   <<RuleRef("s"), Action(Labels, "return y"), Literal("a")>>,
   <<RuleRef("s"), Class(<<<<"a">>>>, FALSE, "[a]"),
     Action(Labeled("x", AnyChar), "return x")>>}

CompiledRules ==
  UNION {{ParseGrammar(e[1], e[2], e[3]).rules[i].value : i \in 1..3} :
           e \in CompiledTriples}

IdentifiersInit == CompileIdle /\ ParseIdle /\ UtilIdle

\* PEG.Compiler.generateUniqueIdentifier(prefix), called on its own.
Generate ==
  /\ Len(generated) < MaxIdentifiers
  /\ \E prefix \in Prefixes :
       LET st == generate([counters |-> uniqueIdentifierCounters,
                           generated |-> generated], prefix)
       IN /\ uniqueIdentifierCounters' = st.counters
          /\ generated' = st.generated
  /\ UNCHANGED <<compileVars, parseVars, calls, callVars, checking, compiled>>

\* PEG.Compiler.resetUniqueIdentifierCounters(), called on its own.
Reset ==
  /\ uniqueIdentifierCounters' = resetUniqueIdentifierCounters(uniqueIdentifierCounters)
  /\ generated' = <<>>
  /\ UNCHANGED <<compileVars, parseVars, calls, callVars, checking, compiled>>

\* The compile function of a rule: the counters are reset, then the
\* identifiers of the rule are generated.
CompileRule ==
  /\ \E rule \in CompiledRules :
       LET st == compileIdentifiers(
                   rule,
                   [counters |-> resetUniqueIdentifierCounters(uniqueIdentifierCounters),
                    generated |-> <<>>])
       IN /\ uniqueIdentifierCounters' = st.counters
          /\ generated' = st.generated
          /\ compiled' = [type |-> "compiled", rule |-> rule,
                          afterOthers |-> uniqueIdentifierCounters # <<>>,
                          identifiers |-> [i \in 1..Len(st.generated) |->
                                            st.generated[i].identifier]]
  /\ UNCHANGED <<compileVars, parseVars, calls, callVars, checking>>

IdentifiersNext == Generate \/ Reset \/ CompileRule

SpecIdentifiers == IdentifiersInit /\ [][IdentifiersNext]_vars

(* ------------------------ the end of parse alone ---------------------- *)

\* The failures of literals, of any character and of a named rule.
ExpectedStrings == {"\"a\"", "\"b\"", "any character", "letters"}

\* The lists of distinct strings rightmostMatchFailuresExpected can be.
ExpectedLists ==
  {l \in UNION {[1..n -> ExpectedStrings] : n \in 0..Cardinality(ExpectedStrings)} :
     \A i \in 1..Len(l) : \A j \in 1..Len(l) : l[i] = l[j] => i = j}

\* The inputs the message is looked at with, and those the position is.
MessageInputs == UNION {[1..n -> {"a", "\""}] : n \in 0..MaxInput}

PositionInputs == UNION {[1..n -> {"a", "\n", "\r", LS, PS}] : n \in 0..MaxInput}

\* The call of the start rule has returned: parse is at its final test.
\* Either the input is of MessageInputs, with any positions and failures, or
\* it is of PositionInputs and "any character" was expected at some position.
ErrorInit ==
  /\ CompileIdle
  /\ UtilIdle
  /\ emitted = NoSource
  /\ cache = <<>>
  /\ reportMatchFailures = TRUE
  /\ stack = <<>>
  /\ ppc = "running"
  /\ outcome = NoOutcome
  /\ last = NoFragment
  /\ evaluated = {}
  /\ \/ /\ input \in MessageInputs
        /\ pos \in 0..Len(input)
        /\ ret \in {Null, Str("a")}
        /\ rightmostMatchFailuresPos \in 0..Len(input)
        /\ rightmostMatchFailuresExpected \in ExpectedLists
        /\ rightmostMatchFailuresPos > 0 => rightmostMatchFailuresExpected # <<>>
     \/ /\ input \in PositionInputs
        /\ pos = 0
        /\ ret = Null
        /\ rightmostMatchFailuresPos \in 0..Len(input)
        /\ rightmostMatchFailuresExpected = <<"any character">>

ErrorNext == ParseEnd

SpecError == ErrorInit /\ [][ErrorNext]_vars

(* ------------- the meta-grammar parser: classCharacterRange ----------- *)

\* The inputs parse_classCharacterRange is looked at with.
RangeInputs == UNION {[1..n -> {"-", "]", "^", "a", "b"}] : n \in 0..MaxInput}

\* parse_classCharacter at position p, for inputs without backslash and
\* line end: its result and pos (its cache entries and failure records,
\* and those of the functions it calls, are left out).
classCharacter(p) ==
  IF p < Len(input) /\ input[p + 1] # "]"
  THEN [data |-> input[p + 1], rawText |-> Join(quoteForClass(input[p + 1]))]
  ELSE Null

\* A range test that rejects equal ends too.
invalidRangeOrEqual(begin, end) == charCode(begin.data) >= charCode(end.data)

\* begin.data.charCodeAt(0) > end.data.charCodeAt(0)
invalidRange(begin, end) == charCode(begin.data) > charCode(end.data)

\* PEG.grammarParser.parse has been called and calls
\* parse_classCharacterRange at position 0.
RangeInit ==
  /\ CompileIdle
  /\ UtilIdle
  /\ emitted = NoSource
  /\ input \in RangeInputs
  /\ pos = 0
  /\ rightmostMatchFailuresPos = 0
  /\ rightmostMatchFailuresExpected = <<>>
  /\ cache = <<>>
  /\ reportMatchFailures = TRUE
  /\ stack = <<>>
  /\ ret = Null
  /\ ppc = "running"
  /\ outcome = NoOutcome
  /\ last = NoFragment
  /\ evaluated = {}

\* parse_classCharacterRange(context)
ParseRange ==
  /\ ppc = "running" /\ outcome = NoOutcome
  /\ LET begin == classCharacter(pos)
         dash == begin # Null /\ substr(input, pos + 1, 1) = "-"
         end == IF dash THEN classCharacter(pos + 2) ELSE Null
         matched == dash /\ end # Null
         result == IF matched
                   THEN [data |-> <<begin.data, end.data>>,
                         rawText |-> begin.rawText \o "-" \o end.rawText]
                   ELSE Null
         nextPos == IF matched THEN pos + 3 ELSE pos
     IN /\ Failures(IF begin # Null /\ ~dash /\ reportMatchFailures
                    THEN matchFailed(quoteString("-"), pos + 1,
                                     rightmostMatchFailuresPos,
                                     rightmostMatchFailuresExpected)
                    ELSE noFailure)
        /\ IF matched /\ invalidRange(begin, end)
           THEN /\ ppc' = "threw"
                /\ outcome' = [name |-> "SyntaxError",
                               message |-> "Invalid character range: "
                                  \o begin.rawText \o "-" \o end.rawText \o "."]
                /\ pos' = pos + 3
                /\ UNCHANGED <<ret, cache>>
           ELSE /\ ppc' = "returned"
                /\ outcome' = Returned(result)
                /\ ret' = result
                /\ pos' = nextPos
                /\ cache' = CachePut(cache, cacheKeyOf("classCharacterRange", pos),
                                     [nextPos |-> nextPos, result |-> result])
  /\ UNCHANGED <<compileVars, utilVars, emitted, input, reportMatchFailures, stack,
                 last, evaluated>>

RangeNext == ParseRange

SpecRange == RangeInit /\ [][RangeNext]_vars

(* =================== properties of compileParser ====================== *)

\* The names of the rule_ref nodes of a tree, wherever they stand.
RECURSIVE RefsIn(_)
RefsIn(node) ==
  CASE node.type = "grammar" ->
         UNION {RefsIn(node.rules[i].value) : i \in 1..Len(node.rules)}
    [] node.type \in ExpressionTypes -> RefsIn(node.expression)
    [] node.type = "choice" ->
         UNION {RefsIn(node.alternatives[i]) : i \in 1..Len(node.alternatives)}
    [] node.type = "sequence" ->
         UNION {RefsIn(node.elements[i]) : i \in 1..Len(node.elements)}
    [] node.type = "rule_ref" -> {node.name}
    [] OTHER -> {}

\* The names of the rules a grammar defines.
Defined(tree) == {tree.rules[i].key : i \in 1..Len(tree.rules)}

\* The referenced names that no rule of the grammar defines.
Missing(tree) == RefsIn(tree) \ Defined(tree)

\* The rule_ref names at the left edge of an expression: those that can be
\* reached without passing an element of a sequence other than its first.
RECURSIVE LeftRefs(_)
LeftRefs(node) ==
  CASE node.type \in ExpressionTypes -> LeftRefs(node.expression)
    [] node.type = "choice" ->
         UNION {LeftRefs(node.alternatives[i]) : i \in 1..Len(node.alternatives)}
    [] node.type = "sequence" ->
         IF Len(node.elements) > 0 THEN LeftRefs(node.elements[1]) ELSE {}
    [] node.type = "rule_ref" -> {node.name}
    [] OTHER -> {}

\* The rules reachable from a set of rules by at most n leftmost-first steps.
RECURSIVE LeftReach(_, _, _)
LeftReach(tree, names, n) ==
  IF n = 0 THEN names
  ELSE LeftReach(tree,
                 names \cup UNION {LeftRefs(Get(tree.rules, m)) :
                                     m \in names \cap Defined(tree)},
                 n - 1)

\* The rules that lie on a cycle of the leftmost-first relation.
LeftRecursive(tree) ==
  {r \in Defined(tree) :
     r \in LeftReach(tree, LeftRefs(Get(tree.rules, r)), Len(tree.rules))}

MissingError(X) == GrammarError("Referenced rule \"" \o X \o "\" does not exist.")

LeftRecursionError(X) ==
  GrammarError("Left recursion detected for rule \"" \o X \o "\".")

AllSteps == <<"check0", "check1", "pass0", "compile", "eval">>

Ran(step) == \E i \in 1..Len(steps) : steps[i] = step

\* The rule a chain of proxies starting at a rule ends in.
RECURSIVE ChainEnd(_, _)
ChainEnd(tree, name) ==
  IF isProxyRule(Get(tree.rules, name))
  THEN ChainEnd(tree, Get(tree.rules, name).expression.name)
  ELSE name

\* C1: once the reference check has run, it has raised 'Referenced rule "X"
\* does not exist.' for a missing X exactly if the grammar holds a rule_ref
\* whose name no rule defines; otherwise it has raised nothing.
C1_ReferenceCheck ==
  Ran("check0") =>
    /\ Missing(ast0) # {} =>
         /\ steps = <<"check0">>
         /\ cpc = "threw"
         /\ \E X \in Missing(ast0) : thrown = MissingError(X)
    /\ Missing(ast0) = {} => ~(steps = <<"check0">> /\ cpc = "threw")

\* C1, apart from the names Object.prototype defines: the same statement for
\* the grammars none of whose rule_refs carries such a name.
C1_OwnNamesOnly ==
  (\A n \in RefsIn(ast0) : ObjectPrototype(n) = Undefined) => C1_ReferenceCheck

\* C2: once the left-recursion check has run, it has raised 'Left recursion
\* detected for rule "X".' exactly if the leftmost-first relation of the
\* grammar has a cycle, and X lies on one.
C2_LeftRecursionCheck ==
  Ran("check1") =>
    /\ LeftRecursive(ast0) # {} <=>
         (cpc = "threw" /\ \E X \in Defined(ast0) : thrown = LeftRecursionError(X))
    /\ \A X \in Defined(ast0) :
         thrown = LeftRecursionError(X) => X \in LeftRecursive(ast0)

\* C2 for the grammars whose references are all to rules of the grammar.
C2_ResolvedOnly == Missing(ast0) = {} => C2_LeftRecursionCheck

\* C3: after the proxy-rule pass every rule_ref names a key of ast.rules, no
\* rule's expression is a rule_ref, and every key is its rule's name.
C3_AfterPass ==
  Ran("pass0") =>
    /\ RefsIn(ast) \subseteq Defined(ast)
    /\ \A i \in 1..Len(ast.rules) :
         /\ ast.rules[i].value.expression.type # "rule_ref"
         /\ ast.rules[i].key = ast.rules[i].value.name

\* C3 for the grammars whose references are all to rules of the grammar.
C3_ResolvedOnly == Missing(ast0) = {} => C3_AfterPass

\* C4: after the pass the start rule is a key of ast.rules; if the start
\* rule was a proxy it is gone from the rules and the start rule is the
\* first rule of its chain of proxies that is not a proxy.
C4_StartRule ==
  Ran("pass0") =>
    /\ ast.startRule \in Defined(ast)
    /\ ast.startRule = ChainEnd(ast0, ast0.startRule)
    /\ isProxyRule(Get(ast0.rules, ast0.startRule)) =>
         ast0.startRule \notin Defined(ast)

\* C4's case: the start rule delegated through a chain of two proxies.
C4_Witness ==
  /\ Ran("pass0")
  /\ isProxyRule(Get(ast0.rules, ast0.startRule))
  /\ isProxyRule(Get(ast0.rules, Get(ast0.rules, ast0.startRule).expression.name))
  /\ ast.startRule # ast0.startRule

\* C5: the pass applied to the grammar it produced changes nothing.
C5_Idempotent == Ran("pass0") => removeProxyRules(ast) = ast

\* C5's case: the first application removed a chain of proxies.
C5_Witness ==
  /\ Ran("pass0")
  /\ Len(ast.rules) + 2 <= Len(ast0.rules)
  /\ removeProxyRules(ast) = ast

\* C6: the steps run in the fixed order; a raised check leaves the tree as
\* it was and returns no parser; a grammar with a missing reference is
\* rejected with the missing-reference error, so the left-recursion check
\* never runs on a grammar with a missing reference.
C6_Pipeline ==
  /\ Len(steps) <= Len(AllSteps) /\ steps = SubSeq(AllSteps, 1, Len(steps))
  /\ cpc = "threw" => (ast = ast0 /\ source = NoSource /\ parser = NoParser)
  /\ Ran("check1") => Missing(ast0) = {}
  /\ (Ran("check0") /\ Missing(ast0) # {}) =>
       \E X \in Missing(ast0) : thrown = MissingError(X)

\* C6 for the grammars none of whose rule_refs carries an inherited name.
C6_OwnNamesOnly ==
  (\A n \in RefsIn(ast0) : ObjectPrototype(n) = Undefined) => C6_Pipeline

(* =================== properties of the emitted parser ================= *)

\* The rules the emitted parse functions were compiled from.
EmittedRules ==
  {emitted.parseFunctionDefinitions[i].rule :
     i \in 1..Len(emitted.parseFunctionDefinitions)}

\* Every rule_ref of the compiled grammar names one of its rules.
Resolved ==
  \A rule \in EmittedRules :
    RefsIn(rule.expression) \subseteq {r.name : r \in EmittedRules}

\* The codes of the action nodes of a tree.
RECURSIVE ActionCodes(_)
ActionCodes(node) ==
  CASE node.type = "action" -> {node.code} \cup ActionCodes(node.expression)
    [] node.type \in ExpressionTypes -> ActionCodes(node.expression)
    [] node.type = "choice" ->
         UNION {ActionCodes(node.alternatives[i]) : i \in 1..Len(node.alternatives)}
    [] node.type = "sequence" ->
         UNION {ActionCodes(node.elements[i]) : i \in 1..Len(node.elements)}
    [] OTHER -> {}

\* No action of the compiled grammar returns null.
NoNullAction ==
  \A rule \in EmittedRules : "return null" \notin ActionCodes(rule.expression)

\* parse has returned or thrown.
Ended == ppc \in {"returned", "threw"}

\* C7: when parse ends, the call of the start rule has returned; if its
\* result is not null and pos is the input's length, parse has returned that
\* result, and in every other case it has thrown a SyntaxError with a
\* message, a line and a column.
C7_Parse ==
  Ended =>
    /\ stack = <<>>
    /\ last.node.type = "rule" /\ last.node.name = "start" /\ last.result = ret
    /\ IF ret # Null /\ pos = Len(input)
       THEN ppc = "returned" /\ outcome = Returned(ret)
       ELSE /\ ppc = "threw"
            /\ outcome = SyntaxError(outcome.message, outcome.line, outcome.column)
            /\ outcome.line >= 1 /\ outcome.column >= 1

\* C7 for the grammars whose references are all to rules of the grammar.
C7_ResolvedOnly == Resolved => C7_Parse

\* C7's cases, for such a grammar: the start rule matched a part of the
\* input only and parse has thrown.
C7_PartialMatch ==
  /\ Resolved /\ ppc = "threw" /\ stack = <<>>
  /\ ret # Null /\ pos < Len(input)
  /\ outcome.name = "SyntaxError"

\* The cache entry a rule evaluation has written.
Stored(e) == [nextPos |-> e.nextPos, result |-> e.result]

\* C8: every rule evaluation that has finished is in the cache, under a key
\* no evaluation of another rule or at another position has, with the
\* result and position it finished with (so no entry has been replaced by a
\* different one); a call answered from the cache is a call of a rule that
\* has been evaluated at that position and leaves that evaluation's result
\* and position; and no rule body is running for a rule and position that
\* have been evaluated already.
C8_Cache ==
  /\ \A e \in evaluated :
       /\ Cached(cacheKeyOf(e.rule, e.pos))
       /\ cache[cacheKeyOf(e.rule, e.pos)] = Stored(e)
  /\ \A e1 \in evaluated, e2 \in evaluated :
       cacheKeyOf(e1.rule, e1.pos) = cacheKeyOf(e2.rule, e2.pos)
         => e1.rule = e2.rule /\ e1.pos = e2.pos
  /\ Cardinality(DOMAIN cache) = Cardinality(evaluated)
  /\ last.cached =>
       \E e \in evaluated :
         /\ e.rule = last.node.name /\ e.pos = last.entry
         /\ last.result = e.result /\ last.exit = e.nextPos
  /\ \A i \in 1..Len(stack) :
       (stack[i].node.type = "rule" /\ stack[i].k = 1) =>
         ~ \E e \in evaluated : e.rule = stack[i].node.name /\ e.pos = stack[i].entry

\* C8's case: a rule that was evaluated at a position, matched and moved
\* pos has been called again at that position and answered from the cache.
C8_Witness ==
  /\ last.cached /\ last.result # Null /\ last.exit > last.entry
  /\ \E e \in evaluated :
       e.rule = last.node.name /\ e.pos = last.entry /\ e.nextPos = last.exit

\* C9: a choice that has finished tried its alternatives in order, each
\* from the position the choice was entered at; the alternatives before the
\* last one tried failed; if the last one tried matched, its result and
\* position are the choice's; the choice failed exactly if all its
\* alternatives failed, and then pos is the position it was entered at.
C9_Choice ==
  last.node.type = "choice" =>
    LET n == Len(last.node.alternatives)
        k == Len(last.results)
    IN /\ k \in 1..n
       /\ \A i \in 1..k : last.starts[i] = last.entry
       /\ \A i \in 1..(k - 1) : last.results[i] = Null
       /\ last.results[k] # Null =>
            last.result = last.results[k] /\ last.exit = last.stops[k]
       /\ last.results[k] = Null => k = n
       /\ last.result = Null <=> (k = n /\ \A i \in 1..n : last.results[i] = Null)
       /\ last.result = Null => last.exit = last.entry

\* C9 for the grammars none of whose actions returns null.
C9_NoNullAction == NoNullAction => C9_Choice

\* C9's case in such a grammar: the second alternative of a choice matched
\* after the first had failed.
C9_SecondAlternative ==
  /\ NoNullAction /\ last.node.type = "choice"
  /\ Len(last.results) = 2 /\ last.result # Null /\ last.exit > last.entry

\* C10: a sequence that has finished ran its elements from left to right,
\* the first from the position the sequence was entered at and each other
\* from where the one before stopped; the elements before the last one run
\* matched; if the last one run failed, the sequence failed and pos is the
\* position it was entered at; otherwise all elements were run, the result
\* is the list of their results and pos is where the last one stopped.
C10_Sequence ==
  last.node.type = "sequence" =>
    LET n == Len(last.node.elements)
        k == Len(last.results)
    IN /\ k \in 0..n
       /\ Len(last.starts) = k /\ Len(last.stops) = k
       /\ \A i \in 1..k :
            last.starts[i] = IF i = 1 THEN last.entry ELSE last.stops[i - 1]
       /\ \A i \in 1..(k - 1) : last.results[i] # Null
       /\ IF k > 0 /\ last.results[k] = Null
          THEN last.result = Null /\ last.exit = last.entry
          ELSE /\ k = n
               /\ last.result = List(last.results)
               /\ last.exit = IF n = 0 THEN last.entry ELSE last.stops[n]

\* C10's case: the second element of a sequence failed after the first had
\* matched and moved pos.
C10_Witness ==
  /\ last.node.type = "sequence"
  /\ Len(last.results) = 2 /\ last.results[2] = Null
  /\ last.stops[1] > last.entry
  /\ last.result = Null /\ last.exit = last.entry

\* A lookahead whose expression has run, or is running, is on the stack.
InLookahead ==
  \E i \in 1..Len(stack) :
    stack[i].node.type \in {"simple_and", "simple_not"} /\ stack[i].k = 1

\* A step of a parse, as C11 has it.
C11_Step ==
  /\ ((Fragment("simple_and") \/ Fragment("simple_not")) /\ Top.k = 1) =>
       /\ pos' = Top.entry
       /\ reportMatchFailures' = Top.report
       /\ ret' = IF (ret = Null) = (Top.node.type = "simple_and")
                 THEN Null ELSE Str("")
  /\ (ppc = "running" /\ InLookahead) =>
       /\ ~reportMatchFailures
       /\ UNCHANGED <<rightmostMatchFailuresPos, rightmostMatchFailuresExpected>>
  /\ (Fragment("semantic_and") \/ Fragment("semantic_not")) => pos' = pos

\* C11: a simple_and or simple_not leaves pos and context.reportMatchFailures
\* as it found them; simple_and fails exactly if its expression failed and
\* simple_not exactly if its expression matched, and the result is ''
\* otherwise; no step taken while the expression runs records a failure;
\* semantic_and and semantic_not leave pos alone.
C11_Lookahead == [][C11_Step]_vars

\* C11 for the grammars none of whose actions returns null.
C11_NoNullAction == [][NoNullAction => C11_Step]_vars

\* The results a fragment's expression left before the last one.
Before(results) == SubSeq(results, 1, Len(results) - 1)

\* The runs of a repetition's expression followed one another, the first
\* from the entry position, and all but the last matched.
Consecutive ==
  /\ Len(last.results) >= 1
  /\ \A i \in 1..Len(last.results) :
       last.starts[i] = IF i = 1 THEN last.entry ELSE last.stops[i - 1]
  /\ \A i \in 1..(Len(last.results) - 1) : last.results[i] # Null
  /\ last.results[Len(last.results)] = Null

\* C12: an optional that has finished did not fail: its result is its
\* expression's, or '' with pos where it was entered if the expression
\* failed.  A zero_or_more did not fail and a one_or_more failed exactly if
\* the first run of its expression failed; otherwise the result is the list
\* of the results of the runs before the first failed one, in order (for
\* one_or_more at least one).
C12_Repetition ==
  /\ last.node.type = "optional" =>
       /\ last.result # Null
       /\ last.results[1] # Null =>
            last.result = last.results[1] /\ last.exit = last.stops[1]
       /\ last.results[1] = Null =>
            last.result = Str("") /\ last.exit = last.entry
  /\ last.node.type = "zero_or_more" =>
       /\ Consecutive
       /\ last.result = List(Before(last.results))
  /\ last.node.type = "one_or_more" =>
       /\ Consecutive
       /\ last.result = Null <=> last.results[1] = Null
       /\ last.result # Null =>
            last.result = List(Before(last.results)) /\ Len(last.result.v) >= 1

\* C12 for the grammars none of whose actions returns null.
C12_NoNullAction == NoNullAction => C12_Repetition

\* C12's cases in such a grammar: an optional whose expression failed, and
\* a repetition that matched twice.
C12_OptionalFailed ==
  /\ NoNullAction /\ last.node.type = "optional" /\ last.results[1] = Null

C12_MatchedTwice ==
  /\ NoNullAction /\ last.node.type \in {"zero_or_more", "one_or_more"}
  /\ Len(last.results) = 3

\* The indexes of the labeled elements of a sequence.
LabeledIndexes(elements) == {i \in 1..Len(elements) : elements[i].type = "labeled"}

\* The index of the n-th labeled element of a sequence.
NthLabeled(elements, n) ==
  CHOOSE i \in LabeledIndexes(elements) :
    Cardinality({j \in LabeledIndexes(elements) : j < i}) = n - 1

\* The labels an action has for parameters and the values they are bound
\* to, as C13 has them, given the result r of the action's expression.
C13_Labels(e) ==
  CASE e.type = "sequence" ->
         [n \in 1..Cardinality(LabeledIndexes(e.elements)) |->
            e.elements[NthLabeled(e.elements, n)].label]
    [] e.type = "labeled" -> <<e.label>>
    [] OTHER -> <<>>

C13_Arguments(e, r) ==
  CASE e.type = "sequence" ->
         [n \in 1..Cardinality(LabeledIndexes(e.elements)) |->
            r.v[NthLabeled(e.elements, n)]]
    [] e.type = "labeled" -> <<r>>
    [] OTHER -> <<>>

\* C13: an action that has finished failed if its expression failed, without
\* a call; otherwise its result is what its code returns when the parameters
\* are the labels of the labeled elements of the wrapped sequence, in order,
\* bound to the results of those elements (the one label and the whole
\* result for a labeled expression, nothing for any other expression).
C13_Action ==
  last.node.type = "action" =>
    LET e == last.node.expression
        r == last.results[1]
        names == C13_Labels(e)
        arguments == C13_Arguments(e, r)
    IN /\ last.exit = last.stops[1]
       /\ r = Null => last.result = Null
       /\ r # Null =>
            /\ formalParams(last.node) = names
            /\ last.node.code = "return arguments" => last.result = List(arguments)
            /\ last.node.code = "return null" => last.result = Null
            /\ \A n \in 1..Len(names) :
                 (/\ last.node.code = "return " \o names[n]
                  /\ \A m \in (n + 1)..Len(names) : names[m] # names[n])
                   => last.result = arguments[n]

\* C13's case: an action over x:. "a" y:. has been called with the results
\* of the first and the third element.
C13_Witness ==
  /\ last.node.type = "action" /\ last.node.expression = Labels
  /\ last.node.code = "return arguments"
  /\ last.results[1] # Null
  /\ last.result = List(<<last.results[1].v[1], last.results[1].v[3]>>)
  /\ last.results[1].v[2] # last.results[1].v[3]

\* The largest of a set of numbers, 0 for none.
Maximum(S) == IF S = {} THEN 0 ELSE CHOOSE m \in S : \A n \in S : n <= m

\* The largest position matchFailed has been called at.
MaxCallPos == Maximum({calls[i].pos : i \in 1..Len(calls)})

\* C14, the state after any calls: rightmostMatchFailuresPos is the largest
\* position of a call (0 if there was none) and
\* rightmostMatchFailuresExpected holds, each once, the strings of the calls
\* made at that position.
C14_Failures ==
  /\ rightmostMatchFailuresPos = MaxCallPos
  /\ {rightmostMatchFailuresExpected[i] :
        i \in 1..Len(rightmostMatchFailuresExpected)}
       = {calls[i].failure : i \in {j \in 1..Len(calls) : calls[j].pos = MaxCallPos}}
  /\ \A i \in 1..Len(rightmostMatchFailuresExpected) :
       \A j \in 1..Len(rightmostMatchFailuresExpected) :
         rightmostMatchFailuresExpected[i] = rightmostMatchFailuresExpected[j]
           => i = j

\* C14: that state after every call; rightmostMatchFailuresPos never
\* decreases; and a call at a position before it changes nothing.
C14_MatchFailed ==
  [][/\ C14_Failures'
     /\ rightmostMatchFailuresPos' >= rightmostMatchFailuresPos
     /\ (calls' # calls /\ pos' < rightmostMatchFailuresPos) =>
          UNCHANGED <<rightmostMatchFailuresPos, rightmostMatchFailuresExpected>>
    ]_vars

\* C14's case: two strings are recorded at the rightmost position, and a
\* later call was made at a position before it.
C14_Witness ==
  /\ Len(rightmostMatchFailuresExpected) = 2
  /\ \E i \in 1..Len(calls) : \E j \in (i + 1)..Len(calls) :
       calls[i].pos = rightmostMatchFailuresPos /\ calls[j].pos < calls[i].pos
  /\ C14_Failures

\* The strings of a list in ascending order.
Ascending(list) ==
  CHOOSE l \in [1..Len(list) -> {list[i] : i \in 1..Len(list)}] :
    \A i \in 1..(Len(l) - 1) : Rank(l[i]) < Rank(l[i + 1])

\* Strings joined by ', '.
RECURSIVE Commas(_)
Commas(list) ==
  IF Len(list) = 1 THEN list[1]
  ELSE Commas(SubSeq(list, 1, Len(list) - 1)) \o ", " \o list[Len(list)]

\* The E and the A of the message, as C15 has them, for the state before
\* the error is built.
C15_Expected(expected) ==
  IF expected = <<>> THEN "end of input"
  ELSE IF Len(expected) = 1 THEN expected[1]
  ELSE Commas(SubSeq(Ascending(expected), 1, Len(expected) - 1))
         \o " or " \o Ascending(expected)[Len(expected)]

C15_Actual ==
  LET offset == Maximum({pos, rightmostMatchFailuresPos})
  IN IF offset < Len(input) THEN quoteString(input[offset + 1]) ELSE "end of input"

\* C15: the message of the SyntaxError parse throws is
\* 'Expected ' + E + ' but ' + A + ' found.'
C15_Message ==
  [][ppc' = "threw" =>
       outcome'.message =
         "Expected " \o C15_Expected(rightmostMatchFailuresExpected)
            \o " but " \o C15_Actual \o " found."]_vars

\* C15's case: three strings were expected, recorded in another order than
\* the sorted one, and the character found needs an escape.
C15_Witness ==
  /\ ppc = "threw"
  /\ outcome.message = "Expected \"a\", any character or letters but \"\\\"\" found."
  /\ pos > rightmostMatchFailuresPos

\* The characters that end a line.
Terminators == {"\n", "\r", LS, PS}

\* The positions (1-based) of the prefix [0, rightmostMatchFailuresPos) of
\* the input where a line terminator ends, "\r\n" being one terminator.
TerminatorEnds ==
  {i \in 1..rightmostMatchFailuresPos :
     /\ input[i] \in Terminators
     /\ ~(input[i] = "\r" /\ i < rightmostMatchFailuresPos /\ input[i + 1] = "\n")}

\* The same positions when a "\n" after U+2028 or U+2029 is taken for the
\* second half of one terminator too.
TerminatorEndsOfCode ==
  {i \in 1..rightmostMatchFailuresPos :
     /\ input[i] \in Terminators
     /\ ~(input[i] # "\n" /\ i < rightmostMatchFailuresPos /\ input[i + 1] = "\n")}

\* Line and column of the end of the prefix, counted from terminator ends.
PositionFrom(ends) ==
  [line |-> 1 + Cardinality(ends),
   column |-> 1 + rightmostMatchFailuresPos - Maximum(ends)]

\* C16: the line of the SyntaxError parse throws is 1 + the number of line
\* terminators of the prefix [0, rightmostMatchFailuresPos) of the input,
\* "\r\n" counting as one and every other "\n", "\r", U+2028, U+2029 as one
\* each; the column is 1 + the number of characters after the last of them.
C16_Position ==
  [][ppc' = "threw" =>
       /\ outcome'.line = PositionFrom(TerminatorEnds).line
       /\ outcome'.column = PositionFrom(TerminatorEnds).column]_vars

\* What computeErrorPosition computes: as C16, but with a "\n" that follows
\* U+2028 or U+2029 not counted.
C16_AsComputed ==
  [][ppc' = "threw" =>
       /\ outcome'.line = PositionFrom(TerminatorEndsOfCode).line
       /\ outcome'.column = PositionFrom(TerminatorEndsOfCode).column]_vars

\* C16 for the prefixes that have no "\n" right after U+2028 or U+2029.
C16_NoSeparatorBeforeLF ==
  [][(/\ ppc' = "threw"
      /\ \A i \in 1..(rightmostMatchFailuresPos - 1) :
           ~(input[i] \in {LS, PS} /\ input[i + 1] = "\n")) =>
       /\ outcome'.line = PositionFrom(TerminatorEnds).line
       /\ outcome'.column = PositionFrom(TerminatorEnds).column]_vars

\* The input starts with a range: a class character, "-", a class character.
StartsWithRange ==
  /\ Len(input) >= 3
  /\ input[1] # "]" /\ input[2] = "-" /\ input[3] # "]"

\* C18: once parse_classCharacterRange has run on an input that starts with
\* a range, it has thrown a SyntaxError 'Invalid character range: ...' if
\* the code of the first character is greater than the code of the last, and
\* has returned the range if it is less or equal; a range it returns has
\* low <= high.
C18_Range ==
  /\ ppc = "threw" =>
       /\ StartsWithRange /\ charCode(input[1]) > charCode(input[3])
       /\ outcome.name = "SyntaxError"
       /\ \E b \in {"-", "\\-", "^", "a", "b"}, e \in {"-", "\\-", "^", "a", "b"} :
            outcome.message = "Invalid character range: " \o b \o "-" \o e \o "."
  /\ (ppc = "returned" /\ StartsWithRange) =>
       /\ charCode(input[1]) <= charCode(input[3])
       /\ ret # Null /\ ret.data = <<input[1], input[3]>>
       /\ pos = 3
  /\ (ppc = "returned" /\ ret # Null) =>
       charCode(ret.data[1]) <= charCode(ret.data[2])

\* C18's cases: a range of one character has been accepted ...
C18_Witness ==
  /\ ppc = "returned" /\ ret # Null /\ ret.data = <<"a", "a">>

\* ... and the range b-a has been rejected.
C18_Rejected ==
  /\ ppc = "threw" /\ outcome.message = "Invalid character range: b-a."

\* A character is one of the parts of a class: equal to a single-character
\* part or, by its code, in a range part.
InParts(c, parts) ==
  \E i \in 1..Len(parts) :
    IF Len(parts[i]) = 2
    THEN charCode(parts[i][1]) <= charCode(c) /\ charCode(c) <= charCode(parts[i][2])
    ELSE c = parts[i][1]

\* C17: a class fragment that has finished matched exactly if there was a
\* character at its position and that character's being one of the parts
\* differs from the inverted flag; if it matched, its result is the
\* character and pos is one further; if not, its result is null and pos is
\* unchanged.
C17_Class ==
  last.node.type = "class" =>
    LET matches == /\ last.entry < Len(input)
                   /\ InParts(input[last.entry + 1], last.node.parts)
                        # last.node.inverted
    IN IF matches
       THEN last.result = Str(input[last.entry + 1]) /\ last.exit = last.entry + 1
       ELSE last.result = Null /\ last.exit = last.entry

\* C17 for the classes that are inverted or do not start with "^".
C17_NoLeadingCaret ==
  (/\ last.node.type = "class"
   /\ ~last.node.inverted
   /\ last.node.parts # <<>>
   /\ last.node.parts[1][1] = "^") \/ C17_Class

\* C17's cases among those: "]" matched by the range ]-_ after the part
\* "\", and "-" not matched by an inverted class that holds it.
C17_Metacharacters ==
  /\ last.node.type = "class"
  /\ \/ /\ last.node.parts = << <<"\\">>, <<"]", "_">> >> /\ ~last.node.inverted
        /\ last.result = Str("]")
     \/ /\ last.node.parts = << <<"-">> >> /\ last.node.inverted
        /\ input = <<"-">> /\ last.result = Null

\* The decimal numeral of a number below 100.
Digit(n) == <<"0", "1", "2", "3", "4", "5", "6", "7", "8", "9">>[n + 1]
Decimal(n) == IF n < 10 THEN Digit(n) ELSE Digit(n \div 10) \o Digit(n % 10)

\* The number of calls with the prefix of call i among the calls before it
\* since the last reset.
EarlierCalls(i) ==
  Cardinality({j \in 1..(i - 1) : generated[j].prefix = generated[i].prefix})

\* C19: every generateUniqueIdentifier call since the most recent reset
\* returned its prefix followed by the decimal number of the earlier calls
\* with the same prefix since that reset (the k-th call returns k-1, calls
\* with other prefixes do not count, a reset restarts every prefix at 0).
C19_Identifiers ==
  \A i \in 1..Len(generated) :
    generated[i].identifier = generated[i].prefix \o Decimal(EarlierCalls(i))

\* C19's case: after a reset, calls of two prefixes interleaved, the second
\* call of "result" coming after a call of "savedPos".
C19_Witness ==
  /\ Len(generated) = 3
  /\ generated[1].identifier = "result0"
  /\ generated[2].identifier = "savedPos0"
  /\ generated[3].identifier = "result1"
  /\ compiled # NoRule

\* C19's case of the reset: a first call after a reset made when counters
\* were not zero.
C19_AfterReset ==
  [][(Len(generated) = 0 /\ uniqueIdentifierCounters = <<>>
        /\ compiled # NoRule /\ Len(generated') = 1)
       => \E prefix \in Prefixes : generated'[1].identifier = prefix \o "0"]_vars

\* The identifiers the compilation of a rule generates when no counter is
\* left from an earlier compilation.
IdentifiersOf(rule) ==
  LET st == compileIdentifiers(rule, [counters |-> <<>>, generated |-> <<>>])
  IN [i \in 1..Len(st.generated) |-> st.generated[i].identifier]

\* C20: the identifiers generated for the rule compiled last are those its
\* compilation generates when nothing was compiled before, whatever was
\* compiled or generated before it, and no two of them are the same.
C20_Rule ==
  compiled # NoRule =>
    /\ compiled.identifiers = IdentifiersOf(compiled.rule)
    /\ \A i \in 1..Len(compiled.identifiers) :
         \A j \in 1..Len(compiled.identifiers) :
           compiled.identifiers[i] = compiled.identifiers[j] => i = j

\* C20's case: a rule with a choice, a sequence and an action compiled when
\* counters were left; its identifiers start at result0 and savedPos0 and
\* reach savedPos1.
C20_Witness ==
  /\ compiled # NoRule
  /\ compiled.afterOthers
  /\ compiled.rule.name = "start"
  /\ compiled.rule.expression.alternatives[2].elements[1].type = "action"
  /\ compiled.identifiers[1] = "result0"
  /\ \E i \in 1..Len(compiled.identifiers) : compiled.identifiers[i] = "savedPos0"
  /\ \E i \in 1..Len(compiled.identifiers) : compiled.identifiers[i] = "savedPos1"

\* C23: the fragment that finished last obeys the fragment contract: with
\* null in its result variable pos is where the fragment was entered, and
\* with any other result pos is there or further.
C23_Contract ==
  last.node.type # "none" =>
    IF last.result = Null THEN last.exit = last.entry ELSE last.exit >= last.entry

\* C23 for the grammars without an action that returns null.
C23_NoNullAction == NoNullAction => C23_Contract

\* C23's cases in such a grammar: a sequence that failed after its first
\* element had moved pos, and an action that matched and moved pos.
C23_SequenceRestored ==
  /\ NoNullAction
  /\ last.node.type = "sequence" /\ last.result = Null
  /\ Len(last.stops) >= 1 /\ last.stops[1] > last.entry

C23_ActionMatched ==
  /\ NoNullAction
  /\ last.node.type = "action" /\ last.result # Null /\ last.exit > last.entry

\* The loops and the rule bodies being executed.
LoopFrames ==
  {i \in 1..Len(stack) : stack[i].node.type \in {"zero_or_more", "one_or_more"}}

BodyFrames == {i \in 1..Len(stack) : stack[i].node.type = "rule" /\ stack[i].k = 1}

\* C22: while parse runs, no rule's body is being executed twice for the
\* same entry position (a rule re-entered at the position it was entered at,
\* which the cache does not answer as the first evaluation has not
\* finished), and every zero_or_more or one_or_more loop has evaluated its
\* sub-expression at most (input length - entry position) + 1 times.
C22_Bounded ==
  /\ \A i \in BodyFrames : \A j \in BodyFrames :
       (stack[i].node.name = stack[j].node.name /\ stack[i].entry = stack[j].entry)
         => i = j
  /\ \A i \in LoopFrames : stack[i].k <= (Len(input) - stack[i].entry) + 1

\* The loop nodes of a tree.
RECURSIVE Loops(_)
Loops(node) ==
  CASE node.type \in {"zero_or_more", "one_or_more"} ->
         {node} \cup Loops(node.expression)
    [] node.type \in ExpressionTypes -> Loops(node.expression)
    [] node.type = "choice" ->
         UNION {Loops(node.alternatives[i]) : i \in 1..Len(node.alternatives)}
    [] node.type = "sequence" ->
         UNION {Loops(node.elements[i]) : i \in 1..Len(node.elements)}
    [] OTHER -> {}

\* Every loop of the compiled grammar runs a literal that is not empty, and
\* no rule refers to itself.
Consuming ==
  \A rule \in EmittedRules :
    /\ \A loop \in Loops(rule.expression) :
         loop.expression.type = "literal" /\ loop.expression.value # ""
    /\ rule.name \notin RefsIn(rule.expression)

\* C22 for such grammars.
C22_Consuming == Consuming => C22_Bounded

\* C22's case for such a grammar: a loop that has evaluated its
\* sub-expression on all the input and once more.
C22_LoopToTheEnd ==
  /\ Consuming
  /\ \E i \in LoopFrames :
       stack[i].entry = 0 /\ Len(input) = MaxInput /\ stack[i].k = MaxInput + 1

\* C21: the parse calls that have ended on a parser gave, for the same
\* input, the same outcome (value returned or error thrown), whether the
\* call was the first on the parser, followed other calls or was made while
\* another call was running; and every parse call starts with pos = 0,
\* rightmostMatchFailuresPos = 0, nothing expected and an empty cache.
C21_Outcomes ==
  \A a \in finished : \A b \in finished : a.input = b.input => a.outcome = b.outcome

C21_Start ==
  parses' = parses + 1 =>
    /\ pos' = 0
    /\ rightmostMatchFailuresPos' = 0
    /\ rightmostMatchFailuresExpected' = <<>>
    /\ cache' = <<>>

C21_Independent == []C21_Outcomes /\ [][C21_Start]_vars

\* C21's case: a call with an input made after a call with another input
\* has ended and, within it, a further call with the input of the first,
\* all ended, one with a value and one with an error.
C21_Witness ==
  /\ parses = MaxParses /\ ppc = "idle"
  /\ Cardinality(finished) >= 2
  /\ \E a \in finished : a.outcome.name = "value"
  /\ \E a \in finished : a.outcome.name = "SyntaxError"

\* C21's case of a call made within a call's action that has returned to it.
C21_Within ==
  /\ ppc = "running" /\ finished # {} /\ stack # <<>> /\ suspended = <<>>
  /\ Top.node.type = "action" /\ Top.k = 2
  /\ cache # <<>>

\* The body of a rule with a display name is running: the function of such
\* a rule has started its body and a fragment of the body is the innermost.
InNamedBody ==
  /\ ppc = "running"
  /\ \E i \in 1..(Len(stack) - 1) :
       stack[i].node.type = "rule" /\ stack[i].node.displayName # "" /\ stack[i].k = 1

\* The function of a rule with a display name is about to leave its body.
NamedReturns ==
  Fragment("rule") /\ Top.k = 1 /\ Top.node.displayName # ""

\* C25: a step of the body of a rule with a display name records no
\* failure; the step that ends the evaluation of such a rule, entered at
\* position p with context.reportMatchFailures = report, leaves the flag at
\* report and, if report holds and the body's result is null, records what one
\* call matchFailed(displayName) at position p records, and otherwise
\* records nothing.
C25_Step ==
  /\ InNamedBody =>
       UNCHANGED <<rightmostMatchFailuresPos, rightmostMatchFailuresExpected>>
  /\ NamedReturns =>
       /\ reportMatchFailures' = Top.report
       /\ LET recorded ==
                IF Top.report /\ ret = Null
                THEN matchFailed(Top.node.displayName, Top.entry,
                                 rightmostMatchFailuresPos,
                                 rightmostMatchFailuresExpected)
                ELSE noFailure
          IN /\ rightmostMatchFailuresPos' = recorded.pos
             /\ rightmostMatchFailuresExpected' = recorded.expected

C25_DisplayName == [][C25_Step]_vars

\* C25 for the grammars without an action that returns null.
C25_NoNullAction == [][NoNullAction => C25_Step]_vars

\* C25's cases in such a grammar: a rule with a display name has failed
\* when entered with reporting on, after its body had tried a literal, and
\* its display name is what is expected; and one has failed when entered
\* with reporting off.
C25_Reported ==
  /\ NoNullAction
  /\ last.node.type = "rule" /\ last.node.displayName # "" /\ ~last.cached
  /\ last.result = Null /\ reportMatchFailures
  /\ rightmostMatchFailuresExpected = <<last.node.displayName>>

C25_Silent ==
  /\ NoNullAction
  /\ last.node.type = "rule" /\ last.node.displayName # "" /\ ~last.cached
  /\ last.result = Null /\ ~reportMatchFailures
  /\ rightmostMatchFailuresExpected = <<>>

\* The call of the start rule has returned and parse has not ended yet.
StartReturned == ppc = "running" /\ stack = <<>>

\* C24: when the call of the start rule has returned null, pos is 0 and
\* rightmostMatchFailuresExpected holds at least one failure.
C24_Failed ==
  (StartReturned /\ ret = Null) =>
    (pos = 0 /\ rightmostMatchFailuresExpected # <<>>)

\* The types of the nodes of a tree.
RECURSIVE Types(_)
Types(node) ==
  {node.type} \cup
    CASE node.type \in ExpressionTypes -> Types(node.expression)
      [] node.type = "choice" ->
           UNION {Types(node.alternatives[i]) : i \in 1..Len(node.alternatives)}
      [] node.type = "sequence" ->
           UNION {Types(node.elements[i]) : i \in 1..Len(node.elements)}
      [] OTHER -> {}

\* The rules the start rule can call: itself and those it refers to (which
\* refer to no rule).
Callable ==
  {rule \in EmittedRules :
     \/ "parse_" \o rule.name = emitted.startRule
     \/ \E start \in EmittedRules :
          /\ "parse_" \o start.name = emitted.startRule
          /\ rule.name \in RefsIn(start.expression)}

\* No rule that can be called holds a lookahead or a predicate.
NoLookahead ==
  \A rule \in Callable :
    Types(rule.expression)
      \cap {"simple_and", "simple_not", "semantic_and", "semantic_not"} = {}

\* C24 for the grammars without lookaheads, predicates and actions that
\* return null.
C24_NoLookahead == (NoLookahead /\ NoNullAction) => C24_Failed

\* C24 but for the failures: pos is 0, in the grammars without an action
\* that returns null.
C24_AtStart == (NoNullAction /\ StartReturned /\ ret = Null) => pos = 0

\* C24's case in a grammar without lookaheads: the start rule has failed
\* after its second alternative had matched a character.
C24_FailedLate ==
  /\ NoLookahead /\ NoNullAction
  /\ StartReturned /\ ret = Null
  /\ rightmostMatchFailuresPos > 0

\* The positions of an input: 0 up to its length.
Positions == 0..Len(input)

\* C26: in every state of a parse call pos and rightmostMatchFailuresPos
\* are positions of the input, every key of the cache is that of a rule and
\* a position of the input, and the entry stored for position p has a
\* nextPos from p up to the length of the input.
C26_Positions ==
  ppc # "idle" =>
    /\ pos \in Positions
    /\ rightmostMatchFailuresPos \in Positions
    /\ DOMAIN cache \subseteq
         {cacheKeyOf(rule.name, p) : rule \in EmittedRules, p \in Positions}
    /\ \A rule \in EmittedRules : \A p \in Positions :
         Cached(cacheKeyOf(rule.name, p)) =>
           /\ p <= cache[cacheKeyOf(rule.name, p)].nextPos
           /\ cache[cacheKeyOf(rule.name, p)].nextPos <= Len(input)

\* C26's case: pos and rightmostMatchFailuresPos are at the end of the
\* longest input, and an entry stored for a position before the end has the
\* end as its nextPos.
C26_Witness ==
  /\ ppc = "running" /\ Len(input) = MaxInput
  /\ pos = Len(input) /\ rightmostMatchFailuresPos = Len(input)
  /\ \E rule \in EmittedRules : \E p \in 0..(Len(input) - 1) :
       /\ Cached(cacheKeyOf(rule.name, p))
       /\ cache[cacheKeyOf(rule.name, p)].nextPos = Len(input)

\* The positions (1-based) before an offset of the input where a line
\* terminator ends, "\r\n" being one terminator.
TerminatorEndsBefore(offset) ==
  {i \in 1..offset :
     /\ input[i] \in Terminators
     /\ ~(input[i] = "\r" /\ i < offset /\ input[i + 1] = "\n")}

\* Line and column of an offset of the input.
PositionAt(offset) ==
  [line |-> 1 + Cardinality(TerminatorEndsBefore(offset)),
   column |-> 1 + offset - Maximum(TerminatorEndsBefore(offset))]

\* The offset of the character the message of the error names as found.
ActualPos == IF pos > rightmostMatchFailuresPos THEN pos ELSE rightmostMatchFailuresPos

Thrown == ppc = "threw" /\ outcome.name = "SyntaxError"

\* C27: the line and the column of the SyntaxError parse has thrown are
\* those of the offset max(pos, rightmostMatchFailuresPos), which is the
\* offset of the character its message names as found.
C27_Offset ==
  Thrown =>
    /\ outcome.line = PositionAt(ActualPos).line
    /\ outcome.column = PositionAt(ActualPos).column

\* C27 for the errors thrown with pos not beyond rightmostMatchFailuresPos.
C27_FailureRightmost == pos <= rightmostMatchFailuresPos => C27_Offset

\* What the code does: line and column are those of rightmostMatchFailuresPos.
C27_AsComputed ==
  Thrown =>
    /\ outcome.line = PositionAt(rightmostMatchFailuresPos).line
    /\ outcome.column = PositionAt(rightmostMatchFailuresPos).column

\* C27's case where it holds: an error thrown for a failure recorded beyond
\* position 0, at the offset of the character named as found.
C27_AtFailure ==
  /\ Thrown
  /\ rightmostMatchFailuresPos > 0 /\ pos <= rightmostMatchFailuresPos
  /\ rightmostMatchFailuresPos < Len(input)
  /\ outcome.column = rightmostMatchFailuresPos + 1

\* The parse without the cache has ended.
UncachedEnded == parses = 1 /\ ppc \in {"returned", "threw"} /\ finished # {}

\* C28: the parse of an input without the cache ends as the parse of that
\* input with the cache did: with the same value returned or the same error
\* thrown, and with the same rightmostMatchFailuresPos and the same set of
\* expected failures.
C28_Transparent ==
  UncachedEnded =>
    \A cached \in finished :
      /\ cached.input = input
      /\ cached.outcome = outcome
      /\ cached.failuresPos = rightmostMatchFailuresPos
      /\ cached.expected = Range(rightmostMatchFailuresExpected)

\* C28 for the value returned when both parses return.
C28_Value ==
  UncachedEnded =>
    \A cached \in finished :
      (cached.outcome.name = "value") = (outcome.name = "value")
        /\ (outcome.name = "value" => cached.outcome = outcome)

\* C28 for the grammars in which no rule is called within a lookahead.
C28_NoLookahead == NoLookahead => C28_Transparent

\* C28's case in such a grammar: both parses have thrown, and the parse
\* without the cache has evaluated a rule a second time at a position.
C28_EvaluatedTwice ==
  /\ NoLookahead /\ UncachedEnded /\ ppc = "threw"
  /\ rightmostMatchFailuresExpected # <<>>
  /\ \E e1 \in evaluated : \E e2 \in evaluated :
       e1.rule = e2.rule /\ e1.pos = e2.pos


\* The rules of the grammar that are proxies: their expression is a rule_ref.
ProxyRules ==
  {ast0.rules[i].value : i \in {j \in 1..Len(ast0.rules) : isProxyRule(ast0.rules[j].value)}}

\* Both parses have ended: the one of the parser emitted after the pass
\* (kept in finished) and the one of the parser emitted without it.
BothEnded == parses = 1 /\ Ended

\* C29: for every grammar that passed the checks and every input, the
\* parser emitted after the proxy rules were removed has the same outcome as
\* the parser emitted from the grammar without the pass: the same value, or
\* the same SyntaxError message, line and column, also when a removed proxy
\* rule carried a display name.
C29_Redundant ==
  BothEnded => \A f \in finished : f.outcome = outcome

\* C29, the part that holds: the outcomes are the same when no removed proxy
\* rule carries a display name.
C29_NoDisplayName ==
  (BothEnded /\ \A rule \in ProxyRules : rule.displayName = "") =>
    \A f \in finished : f.outcome = outcome

\* C29, the part that holds: both parsers return or both throw, and a
\* returned value is the same.
C29_Value ==
  BothEnded =>
    \A f \in finished :
      /\ f.outcome.name = outcome.name
      /\ ppc = "returned" => f.outcome = outcome

\* Both parsers have thrown on a grammar with a named proxy rule that was
\* removed.
C29_NamedProxyRemoved ==
  /\ BothEnded /\ ppc = "threw"
  /\ \E rule \in ProxyRules : rule.displayName # ""
  /\ Len(ast.rules) < Len(ast0.rules)


\* The names of an array are pairwise distinct.
Distinct(array) ==
  \A i, j \in 1..Len(array) : array[i] = array[j] => i = j

\* The stack of applied rule names of every call of check that has not
\* returned holds pairwise distinct names and no more names than the grammar
\* has rules.
C30_Stack ==
  \A i \in 1..Len(checking) :
    /\ Distinct(checking[i].appliedRules)
    /\ Len(checking[i].appliedRules) <= Len(ast.rules)

\* A call of check made by the call of a rule gets the stack of that call
\* with the name of the rule added; any other call gets the stack of its
\* caller.
C30_Step ==
  Len(checking') = Len(checking) + 1 =>
    LET callee == checking'[Len(checking')]
    IN IF Checked.node.type = "rule"
       THEN callee.appliedRules = Checked.appliedRules \o <<Checked.node.name>>
       ELSE callee.appliedRules = Checked.appliedRules

\* this._checks[1] has returned or raised.
C30_Done == cpc # "check1"

\* C30: on every grammar whose references all resolve, left-recursive or
\* not, the left-recursion check returns or raises; until then the stack of
\* applied rule names holds pairwise distinct names, grows by one name at
\* each rule entered and is never longer than the number of rules.
C30_Terminates ==
  /\ []C30_Stack
  /\ [][C30_Step]_vars
  /\ <>C30_Done

\* The check is about to raise on a grammar of several rules with every rule
\* applied.
C30_Witness ==
  /\ checking # <<>>
  /\ Len(ast.rules) > 1
  /\ Checked.node.type = "rule_ref"
  /\ Len(Checked.appliedRules) = Len(ast.rules)
  /\ \E i \in 1..Len(Checked.appliedRules) :
       Checked.appliedRules[i] = Checked.node.name

\* The check has returned on a grammar in which a rule refers to a rule.
C30_Returned ==
  /\ cpc = "pass0"
  /\ \E i \in 1..Len(ast.rules) : ast.rules[i].value.expression.type # "literal"

\* Call by call the check gives what check(ast, []) gives as a whole.
C30_AsChecked ==
  C30_Done => thrown = checkLeftRecursion(ast0, ast0, <<>>)

\* The calls that have not returned are fewer than LeftDepth.
C30_Depth == Len(checking) < LeftDepth

====
